---- MODULE Spec2Model ----
(***************************************************************************)
(* Model of the poketrends backend: the continuous refresh scheduler       *)
(* (services/ContinuousRefreshService.js), its staleness selector, its     *)
(* blocking detection, the Bottleneck limiter it drives, and its saveData, *)
(* the writer of data/pokemon_trends.json.                                 *)
(*                                                                         *)
(* Time is in milliseconds, as in the code.  Timers (setTimeout) fire at   *)
(* or after their deadline, never before it.                               *)
(***************************************************************************)
EXTENDS Integers, Sequences, FiniteSets, TLC

(***************************************************************************)
(* Bounds of the model                                                     *)
(***************************************************************************)
\* number of Pokemon in the item universe (pokemon_names.json holds 1025)
MaxPokemon == 2
\* number of start()/refreshLoop() activations that may be alive at once
MaxLoops == 2
\* number of operator commands (start, stop, pause, resume) in a behaviour
MaxCmds == 2
\* number of fetches dispatched in a behaviour
MaxDispatch == 3
\* number of times the clock advances in a behaviour
MaxTicks == 3
\* number of Pokemon in the list the harvest's pokemonListFetcher returns
MaxHarvestPokemon == 11
\* number of harvests started in a behaviour
MaxHarvests == 1
\* number of pairs of a harvest whose fetch ends in a fallback
MaxFallbacks == 2
\* number of calls of fetchTrendsData in flight at a time
MaxCalls == 2
\* number of calls of fetchTrendsData each slot serves in a behaviour
MaxCallsPerSlot == 1
\* the configured TRENDS_DAILY_BUDGET (server.js line 38; 200 when unset)
DAILY_BUDGET == 1
\* number of characters of a name given to getFallbackScore
MaxNameLen == 3
\* number of calls of startBackgroundHarvest in a behaviour
MaxStarts == 2

(***************************************************************************)
(* Program constants                                                       *)
(***************************************************************************)
DayMs == 24 * 60 * 60 * 1000
\* 7 * 24 * 60 * 60 * 1000, getNextPokemonToRefresh
StaleMs == 7 * 24 * 60 * 60 * 1000
\* the clock reading of the initial state: nine days after the oldest stamp
NowInit == 9 * DayMs

\* const countries = ['US', 'JP', 'GB', 'ES', 'FR', 'DE'], cut to its first two
countries == <<"US", "JP">>
NumCountries == Len(countries)
AllNames == <<"bulbasaur", "ivysaur", "venusaur", "charmander">>
\* getAllPokemon: the cached list [{id, name}], ids 1..n
allPokemon == [i \in 1..MaxPokemon |-> [id |-> i, name |-> AllNames[i]]]

NumPairs == MaxPokemon * NumCountries
PairIds == 1..NumPairs
\* the k-th pair of the nested loops "for pokemon ... for country ..."
PairOf(k) == [name |-> allPokemon[((k - 1) \div NumCountries) + 1].name,
              id |-> allPokemon[((k - 1) \div NumCountries) + 1].id,
              country |-> countries[((k - 1) % NumCountries) + 1]]

(***************************************************************************)
(* The dataset document                                                    *)
(*   data.countries[country][name] = {..., lastFetched} ; absent entries   *)
(*   are NoEntry.  lastFetched is a clock reading or NoStamp (the field    *)
(*   is missing or null).                                                  *)
(***************************************************************************)
NoEntry == [present |-> FALSE]
NoStamp == -1
Null == [null |-> TRUE]
Infinity == -1

MkEntry(stamp, fb, kind) ==
  [present |-> TRUE, lastFetched |-> stamp, fallback |-> fb, kind |-> kind]

\* { countries: {}, metadata: {} }
EmptyData ==
  [entries |-> [k \in PairIds |-> NoEntry], lastUpdate |-> NoStamp, topicIds |-> FALSE]

\* JSON.stringify(data, null, 2): the document as a sequence of tokens,
\* an opening brace, one token per stored entry, one token for the keys that
\* follow countries (metadata, and topicIds when the document has that key;
\* only HarvestService.createEmptyData makes it), a closing brace
RECURSIVE EntryTokens(_, _)
EntryTokens(d, k) ==
  IF k > NumPairs THEN <<>>
  ELSE (IF d.entries[k].present
          THEN <<[tok |-> "entry", pair |-> k, entry |-> d.entries[k]]>>
          ELSE <<>>) \o EntryTokens(d, k + 1)

stringify(d) ==
  <<[tok |-> "{"]>> \o EntryTokens(d, 1)
    \o <<[tok |-> "metadata", lastUpdate |-> d.lastUpdate, topicIds |-> d.topicIds],
         [tok |-> "}"]>>

\* JSON.parse succeeds on a complete document only
Parseable(text) ==
  /\ Len(text) >= 3
  /\ text[1].tok = "{"
  /\ text[Len(text)].tok = "}"
  /\ text[Len(text) - 1].tok = "metadata"
  /\ \A i \in 2..(Len(text) - 2) : text[i].tok = "entry"

parse(text) ==
  [entries |-> [k \in PairIds |->
                  IF \E i \in 2..(Len(text) - 2) : text[i].pair = k
                    THEN text[CHOOSE i \in 2..(Len(text) - 2) : text[i].pair = k].entry
                    ELSE NoEntry],
   lastUpdate |-> text[Len(text) - 1].lastUpdate,
   topicIds |-> text[Len(text) - 1].topicIds]

\* loadData: readFile + JSON.parse, any error gives the empty document
\* (a variant that keeps what it can read of a text JSON.parse rejects)
loadDataPartial(text) ==
  IF Parseable(text) THEN parse(text)
  ELSE [entries |-> [k \in PairIds |->
                       IF \E i \in 1..Len(text) : text[i].tok = "entry" /\ text[i].pair = k
                         THEN text[CHOOSE i \in 1..Len(text) :
                                     text[i].tok = "entry" /\ text[i].pair = k].entry
                         ELSE NoEntry],
        lastUpdate |-> NoStamp, topicIds |-> FALSE]

loadData(text) == IF Parseable(text) THEN parse(text) ELSE EmptyData

(***************************************************************************)
(* The staleness selector                                                  *)
(***************************************************************************)
\* age = existing?.lastFetched ? Date.now() - lastFetched : Infinity
AgeOf(d, k, t) ==
  IF d.entries[k].present /\ d.entries[k].lastFetched # NoStamp
    THEN t - d.entries[k].lastFetched
    ELSE Infinity

BuildEntries(d, t) ==
  [k \in PairIds |-> [pair |-> k, name |-> PairOf(k).name, id |-> PairOf(k).id,
                      country |-> PairOf(k).country, age |-> AgeOf(d, k, t)]]

\* the comparator (a, b) => b.age - a.age as Array.prototype.sort reads it:
\* Infinity - Infinity is NaN, which sort treats as 0
CompareAgeWrong(a, b) ==
  IF a.age = Infinity /\ b.age = Infinity THEN 0
  ELSE IF b.age = Infinity THEN -1
  ELSE IF a.age = Infinity THEN 1
  ELSE IF a.age > b.age THEN 1 ELSE IF a.age < b.age THEN -1 ELSE 0

CompareAge(a, b) ==
  IF a.age = Infinity /\ b.age = Infinity THEN 0
  ELSE IF b.age = Infinity THEN 1
  ELSE IF a.age = Infinity THEN -1
  ELSE IF b.age > a.age THEN 1 ELSE IF b.age < a.age THEN -1 ELSE 0

\* Array.prototype.sort is stable: x goes after every element not ordered after it
RECURSIVE InsertSorted(_, _)
InsertSorted(s, x) ==
  IF s = <<>> THEN <<x>>
  ELSE IF CompareAge(Head(s), x) <= 0 THEN <<Head(s)>> \o InsertSorted(Tail(s), x)
  ELSE <<x>> \o s

\* (the sorted prefix is bound as a value, so that it is computed once)
RECURSIVE SortEntries(_, _)
SortEntries(es, n) ==
  IF n = 0 THEN <<>>
  ELSE CHOOSE r \in {InsertSorted(p, es[n]) : p \in {SortEntries(es, n - 1)}} : TRUE

\* e.age > 7 days
IsStaleAge(a) == a = Infinity \/ a > StaleMs
\* e.age < 7 days
IsRefreshedAge(a) == a # Infinity /\ a < StaleMs

\* Math.round of the non-negative quotient n / d
Round(n, d) == (2 * n + d) \div (2 * d)

\* this.stats.cycleProgress = Math.round((refreshedCount / entries.length) * 100)
CycleProgressOf(d, t) ==
  Round(100 * Cardinality({k \in PairIds : IsRefreshedAge(AgeOf(d, k, t))}), NumPairs)

\* entries.find(e => e.age > 7 days) on the sorted list, or null
RECURSIVE FindStale(_)
FindStale(s) ==
  IF s = <<>> THEN Null
  ELSE IF IsStaleAge(Head(s).age) THEN Head(s) ELSE FindStale(Tail(s))

getNextPokemonToRefresh(d, t) == FindStale(SortEntries(BuildEntries(d, t), NumPairs))


(***************************************************************************)
(* Timing constants of ContinuousRefreshService                            *)
(***************************************************************************)
\* Bottleneck minTime, the default of TRENDS_CONTINUOUS_MIN_TIME_MS
MinTime == 45000
MaxConcurrent == 1
ReservoirAmount == 1
ReservoirRefreshInterval == 60000
StartupDelayMs == 5 * 60 * 1000
PausePollMs == 60000
CycleBreakMs == 300000
\* pauseTime = 120000 + Math.random() * 180000
PacingMinMs == 120000
PacingSpanMs == 180000
ErrorWaitMs == 60000
AutoResumeMs == 24 * 60 * 60 * 1000

(***************************************************************************)
(* The capability server.js injects: getTrends = fetchTrendsData           *)
(*   One call makes up to four attempts of googleTrends.interestOverTime;  *)
(*   an attempt resolves to a text or rejects with a message.  getTopicId  *)
(*   resolves no topic, so the keyword term is used, and the daily budget  *)
(*   is not exhausted (that case is "fallbackObject" below).               *)
(***************************************************************************)
MaxAttempts == 4
\* maxRetries = 3, the default of startBackgroundHarvest and of POST /admin/harvest
MaxRetries == 3

\* the answer of googleTrends.interestOverTime to one attempt
Attempt(a) ==
  CASE a = "timeline" ->
         [resolved |-> TRUE, text |-> <<"{\"default\":", "{\"timelineData\":[", "{\"value\":[">>]
    [] a = "emptyTimeline" ->
         [resolved |-> TRUE, text |-> <<"{\"default\":", "{\"timelineData\":[", "]}}">>]
    [] a = "htmlPage" ->
         [resolved |-> TRUE, text |-> <<"<!DOCTYPE", " html>", "<html", "><head>">>]
    [] a = "reject429" ->
         [resolved |-> FALSE, text |-> <<"Request failed with status code ", "429">>]
    [] a = "rejectParse" ->
         [resolved |-> FALSE, text |-> <<"Unexpected token", "< in JSON">>]
    [] a = "rejectNetwork" ->
         [resolved |-> FALSE, text |-> <<"ECONNRESET">>]

\* the attempts one call of fetchTrendsData meets, by name of the call
Attempts(o) ==
  CASE o = "upTimeline" -> <<"timeline">>
    [] o = "upRecovers" -> <<"htmlPage", "reject429", "rejectNetwork", "timeline">>
    [] o = "upEmptyTimeline" -> <<"emptyTimeline">>
    [] o = "upHtmlPage" -> <<"htmlPage", "htmlPage", "htmlPage", "htmlPage">>
    [] o = "up429" -> <<"reject429", "reject429", "reject429", "reject429">>
    [] o = "upParseError" -> <<"rejectParse", "rejectParse", "rejectParse", "rejectParse">>
    [] o = "upNetwork" -> <<"rejectNetwork", "rejectNetwork", "rejectNetwork", "rejectNetwork">>

UpstreamCalls == {"upTimeline", "upRecovers", "upEmptyTimeline", "upHtmlPage", "up429",
                  "upParseError", "upNetwork"}

\* isProbablyHTML, lines 292-304, on a text held as fragments
isProbablyHTML(text) ==
  /\ text # <<>>
  /\ \/ text[1] \in {"<!DOCTYPE", "<!doctype", "<html"}
     \/ \E i \in 1..Len(text) : text[i] = "<html"
     \/ (\E i \in 1..Len(text) : text[i] = "<meta")
          /\ (\E i \in 1..Len(text) : text[i] = "</head>")

\* one attempt of fetchInterestWithRetry, lines 317-337: the parsed text, or
\* the error the catch receives
TryOnce(a) ==
  IF ~Attempt(a).resolved
    THEN [ok |-> FALSE, message |-> Attempt(a).text, text |-> <<>>]
  ELSE IF isProbablyHTML(Attempt(a).text)
    THEN [ok |-> FALSE,
          message |-> <<"Non-JSON response from Google Trends (HTML/snippet): ">>
                        \o Attempt(a).text,
          text |-> <<>>]
  ELSE [ok |-> TRUE, message |-> <<>>, text |-> Attempt(a).text]

\* fetchInterestWithRetry, lines 311-368: the first attempt that parses, or
\* the error of the last of the four attempts
RECURSIVE fetchInterestWithRetry(_, _)
fetchInterestWithRetry(as, attempt) ==
  IF TryOnce(as[attempt]).ok \/ attempt = MaxAttempts \/ attempt = Len(as)
    THEN TryOnce(as[attempt])
    ELSE fetchInterestWithRetry(as, attempt + 1)

\* fetchTrendsData, lines 265-534: the result object of the parsed timeline,
\* the fallback object of an empty timeline (lines 436-453), or the fallback
\* object of the catch (lines 506-532), which carries the error's message
fetchTrendsData(o) ==
  LET r == fetchInterestWithRetry(Attempts(o), 1) IN
    IF ~r.ok
      THEN [type |-> "object", error |-> r.message, fallback |-> TRUE, text |-> <<>>]
    ELSE IF r.text[Len(r.text)] = "]}}"
      THEN [type |-> "object", error |-> <<>>, fallback |-> TRUE, text |-> <<>>]
    ELSE [type |-> "object", error |-> <<>>, fallback |-> FALSE, text |-> <<>>]

\* what the source answered to the call, in the words of the documentation
UpstreamShape(o) ==
  LET last == Attempt(Attempts(o)[Len(Attempts(o))]) IN
    IF last.resolved /\ isProbablyHTML(last.text) THEN "html"
    ELSE IF ~last.resolved /\ \E i \in 1..Len(last.text) : last.text[i] = "429"
      THEN "rateLimit"
    ELSE "other"

(***************************************************************************)
(* Responses of the injected capability trendsService.getTrends            *)
(*   a returned object {error?, fallback?}, a returned string, or a thrown *)
(*   error with a message; texts are sequences of fragments                *)
(***************************************************************************)
Payload(o) ==
  CASE o = "json" ->
         [type |-> "object", error |-> <<>>, fallback |-> FALSE, text |-> <<>>]
    [] o = "fallbackObject" ->
         [type |-> "object", error |-> <<"Daily trends budget exceeded">>,
          fallback |-> TRUE, text |-> <<>>]
    [] o = "parseErrorObject" ->
         [type |-> "object", error |-> <<"Unexpected token", "< in JSON">>,
          fallback |-> FALSE, text |-> <<>>]
    [] o = "htmlUpperDoctype" ->
         [type |-> "string", error |-> <<>>, fallback |-> FALSE,
          text |-> <<"<!DOCTYPE", " html>", "<html", "><head>">>]
    [] o = "htmlLowerDoctype" ->
         [type |-> "string", error |-> <<>>, fallback |-> FALSE,
          text |-> <<"<!doctype", " html>", "<html", "><head>">>]
    [] o = "htmlSkeleton" ->
         [type |-> "string", error |-> <<>>, fallback |-> FALSE,
          text |-> <<"<html", "><head>", "<meta", "</head>">>]
    [] o = "throw429" ->
         [type |-> "throw", error |-> <<>>, fallback |-> FALSE,
          text |-> <<"Request failed with status code ", "429">>]
    [] o = "throwParse" ->
         [type |-> "throw", error |-> <<>>, fallback |-> FALSE,
          text |-> <<"Unexpected token", "< in JSON">>]
    [] o = "throw302" ->
         [type |-> "throw", error |-> <<>>, fallback |-> FALSE,
          text |-> <<"302 Moved", " Temporarily">>]
    [] o = "throwNetwork" ->
         [type |-> "throw", error |-> <<>>, fallback |-> FALSE,
          text |-> <<"ECONNRESET">>]
    [] o \in UpstreamCalls -> fetchTrendsData(o)

Outcomes == {"json", "fallbackObject", "parseErrorObject", "htmlUpperDoctype",
             "htmlLowerDoctype", "htmlSkeleton", "throw429", "throwParse",
             "throw302", "throwNetwork"}

\* String.prototype.includes, on a text held as fragments
includes(text, fragment) == \E i \in 1..Len(text) : text[i] = fragment

\* fetchWithBlockDetection: "blocked", "success" or "failure"
fetchWithBlockDetection(p) ==
  IF p.type = "throw"
    THEN IF includes(p.text, "Unexpected token") \/ includes(p.text, "302 Moved")
           THEN "blocked" ELSE "failure"
  ELSE IF p.type = "string" /\ includes(p.text, "<!DOCTYPE") THEN "blocked"
  ELSE IF p.type = "object" /\ includes(p.error, "Unexpected token") THEN "blocked"
  ELSE IF p.type = "object" /\ p.fallback = TRUE THEN "failure"
  ELSE "success"

\* the entry saveData stores: {...trendsData, lastFetched: now}; spreading a
\* string stores its characters, not a score
SavedEntryNoStamp(p, t) ==
  MkEntry(NoStamp, FALSE, IF p.type = "string" THEN "characters" ELSE "real")

SavedEntry(p, t) ==
  MkEntry(t, FALSE, IF p.type = "string" THEN "characters" ELSE "real")

(***************************************************************************)
(* HarvestService (backend/services/HarvestService.js)                     *)
(*   It keeps the document of the same data file in memory (currentData)   *)
(*   and harvests the stale pairs of its own item universe, the list its   *)
(*   pokemonListFetcher returns: the first n Pokemon, each in the first    *)
(*   NumCountries countries.  Pair k is Pokemon (k - 1) \div NumCountries  *)
(*   + 1 in country (k - 1) % NumCountries + 1, as in PairOf.              *)
(***************************************************************************)
HarvestKeys == 1..(MaxHarvestPokemon * NumCountries)
KeyOf(p, c) == (p - 1) * NumCountries + c

\* createEmptyData, lines 47-59
createEmptyData(t) ==
  [entries |-> [k \in HarvestKeys |-> NoEntry], lastUpdate |-> t, topicIds |-> TRUE]

\* JSON.parse of a complete document, all keys of the harvest's universe
ParseAll(text) ==
  [entries |-> [k \in HarvestKeys |->
                  IF \E i \in 2..(Len(text) - 2) : text[i].pair = k
                    THEN text[CHOOSE i \in 2..(Len(text) - 2) : text[i].pair = k].entry
                    ELSE NoEntry],
   lastUpdate |-> text[Len(text) - 1].lastUpdate,
   topicIds |-> text[Len(text) - 1].topicIds]

\* loadExistingData, lines 31-45: a missing file, and a file JSON.parse
\* rejects, give createEmptyData()
loadExistingData(text, t) == IF Parseable(text) THEN ParseAll(text) ELSE createEmptyData(t)

\* JSON.stringify(this.currentData, null, 2)
RECURSIVE AllEntryTokens(_, _)
AllEntryTokens(d, k) ==
  IF k > MaxHarvestPokemon * NumCountries THEN <<>>
  ELSE (IF d.entries[k].present
          THEN <<[tok |-> "entry", pair |-> k, entry |-> d.entries[k]]>>
          ELSE <<>>) \o AllEntryTokens(d, k + 1)

StringifyAll(d) ==
  <<[tok |-> "{"]>> \o AllEntryTokens(d, 1)
    \o <<[tok |-> "metadata", lastUpdate |-> d.lastUpdate, topicIds |-> d.topicIds],
         [tok |-> "}"]>>

\* getStaleEntries, lines 204-214: no entry, or now - lastFetched > 7 days,
\* lastFetched counting as 0 when the entry has none
StaleForHarvestAtThreshold(d, k, t) ==
  \/ ~d.entries[k].present
  \/ t - (IF d.entries[k].lastFetched = NoStamp THEN 0 ELSE d.entries[k].lastFetched)
       >= StaleMs

StaleForHarvest(d, k, t) ==
  \/ ~d.entries[k].present
  \/ t - (IF d.entries[k].lastFetched = NoStamp THEN 0 ELSE d.entries[k].lastFetched)
       > StaleMs

\* getStaleEntries, lines 186-219, for the first n Pokemon of the list:
\* tp is targetPokemon (the targeted Pokemon as names, or Null), tc is
\* targetCountries (the targeted countries as codes, or Null); the pairs
\* to fetch, in the order "for country ... for p of pokemon ..."
getStaleEntries(d, n, tp, tc, t) ==
  LET cs == IF tc = Null THEN [c \in 1..NumCountries |-> c] ELSE tc.codes
      all == [i \in 1..(Len(cs) * n) |->
                [p |-> ((i - 1) % n) + 1, c |-> cs[((i - 1) \div n) + 1]]]
      wanted(x) == /\ (tp = Null \/ x.p \in tp.names)
                   /\ StaleForHarvest(d, KeyOf(x.p, x.c), t)
      kept == SelectSeq(all, wanted)
  IN [i \in 1..Len(kept) |-> KeyOf(kept[i].p, kept[i].c)]

\* the entries fetchAndSave stores: lines 238-247 (the data the client
\* returned, fallback: !!data.fallback) and lines 282-287 (retries exhausted)
FetchedEntry(fb, t) == MkEntry(t, fb, "real")
ExhaustedEntryNoStamp(t) == MkEntry(NoStamp, TRUE, "error")
ExhaustedEntry(t) == MkEntry(t, TRUE, "error")

NoProgress == [current |-> 0, total |-> 0, successCount |-> 0, fallbackCount |-> 0]

\* the constructor, lines 17-26, given the list the fetcher will return;
\* status and starts record the answers of startBackgroundHarvest, answers
\* and invocations what the trends client did in the latest fetchAndSave
HarvestAtBoot(text, n, t) ==
  [pc |-> "idle", isHarvesting |-> FALSE, currentData |-> loadExistingData(text, t),
   progress |-> NoProgress, toFetch |-> <<>>, item |-> 0, n |-> n,
   targetPokemon |-> Null, targetCountries |-> Null, runs |-> 0,
   status |-> "", starts |-> 0, answers |-> <<>>, invocations |-> 0]

(***************************************************************************)
(* State                                                                   *)
(***************************************************************************)
VARIABLES
  now,          \* Date.now()
  isRunning,    \* this.isRunning
  isPaused,     \* this.isPaused
  stats,        \* this.stats
  file,         \* the contents of dataPath (data/pokemon_trends.json)
  loops,        \* the start() calls and refreshLoop() activations, by slot
  limiter,      \* this.limiter (Bottleneck)
  resumeTimers, \* deadlines of the pending setTimeout(() => this.resume())
  cmdsLeft,     \* number of operator commands still to be issued
  nDispatch,    \* number of invocations of trendsService.getTrends so far
  lastDispatch, \* the latest invocation: its clock reading and pair
  nHandled,     \* number of loop iterations that handled a fetch result
  lastHandled,  \* the latest handled result
  sel,          \* the value returned by the latest stand-alone selector call
  ticks,        \* number of times the clock has advanced
  lastCmd,      \* the latest operator command and the answer of its endpoint
  harvest,      \* the HarvestService: its fields and the position of its harvest
  lockFile,     \* whether lockPath (data/.harvest.lock) exists
  dailyStats,   \* server.js dailyStats: {date, requestsToday}
  trendsCache,  \* server.js trendsCache: cacheKey -> {data, timestamp}
  topicIdCache, \* server.js topicIdCache: name -> mid or null
  calls,        \* the calls of fetchTrendsData in flight, by slot
  lastStore,    \* per cacheKey, the clock reading of the latest trendsCache.set
  scored        \* the latest name scored by the two getFallbackScore functions

vars == <<now, isRunning, isPaused, stats, file, loops, limiter, resumeTimers,
          cmdsLeft, nDispatch, lastDispatch, nHandled, lastHandled, sel, ticks,
          lastCmd, harvest,
          lockFile, dailyStats, trendsCache, topicIdCache, calls, lastStore, scored>>

ServerVars == <<dailyStats, trendsCache, topicIdCache, calls, lastStore, scored>>

(***************************************************************************)
(* server.js: the state fetchTrendsData works on                           *)
(***************************************************************************)
\* const CACHE_TTL = 24 * 60 * 60 * 1000
CACHE_TTL == 24 * 60 * 60 * 1000
\* const maxAttempts = 2 and the two queries of getTopicId
TopicMaxAttempts == 2
TopicQueries == 2
HalfDayMs == 12 * 60 * 60 * 1000

CallIds == 1..MaxCalls
\* the cache keys `${pokemonName}_${countryCode}` the callers ask for: the
\* first Pokemon in each country
ServerKeys == 1..NumCountries
NameOf(k) == ((k - 1) \div NumCountries) + 1

\* new Date().toDateString(), as the number of the day
DateOf(t) == t \div DayMs

IdleCall == [pc |-> "idle", n |-> 0]

\* the state of the server's module scope once server.js is loaded, lines
\* 24-42 (the topic cache file is absent)
ServerAtBoot ==
  /\ dailyStats = [date |-> DateOf(now), requestsToday |-> 0]
  /\ trendsCache = [k \in PairIds |-> Null]
  /\ topicIdCache = [p \in 1..MaxPokemon |-> "unset"]
  /\ calls = [c \in CallIds |-> IdleCall]
  /\ lastStore = [k \in PairIds |-> NoStamp]
  /\ scored = [called |-> FALSE]

\* the constructor, lines 10-19
InitStats == [lastRun |-> NoStamp, successCount |-> 0, failureCount |-> 0,
              blockedCount |-> 0, currentPokemon |-> "", cycleProgress |-> 0]

LoopIds == 1..MaxLoops

NoLoop == [pc |-> "none", wakeAt |-> 0, pair |-> 0, outcome |-> "",
           content |-> <<>>, doc |-> EmptyData]

NoDispatch == [t |-> NoStamp, prev |-> NoStamp, pair |-> 0]
NoHandled == [t |-> NoStamp, pair |-> 0, class |-> "", shape |-> "", cmds |-> 0]

\* the answer of an /admin/refresh endpoint: res.json({success, message}), or
\* no answer when the handler's promise rejects
Answer(name, success, message) ==
  [name |-> name, error |-> FALSE, success |-> success, message |-> message]
Rejected(name) == [name |-> name, error |-> TRUE, success |-> FALSE, message |-> ""]
NoCmd == Answer("", FALSE, "")

(***************************************************************************)
(* Documents the initial states draw the durable file from                 *)
(***************************************************************************)
\* the stamps an initial entry may carry: 8 days old and 6 days old; as days
\* pass the ages run through fresh, exactly 7 days and stale
InitStamps == {NowInit - 8 * DayMs, NowInit - 6 * DayMs}

SelEntries == {NoEntry} \cup {MkEntry(s, FALSE, "real") : s \in InitStamps}

(***************************************************************************)
(* SpecSel: the selector applied to every document over SelEntries         *)
(***************************************************************************)
InitSel ==
  /\ now = NowInit
  /\ isRunning = FALSE
  /\ isPaused = FALSE
  /\ stats = InitStats
  /\ \E e \in [PairIds -> SelEntries] :
       file = stringify([entries |-> e, lastUpdate |-> NowInit - DayMs,
                         topicIds |-> FALSE])
  /\ loops = [l \in LoopIds |-> NoLoop]
  /\ limiter = [stopped |-> FALSE]
  /\ resumeTimers = <<>>
  /\ cmdsLeft = 0
  /\ nDispatch = 0
  /\ lastDispatch = NoDispatch
  /\ nHandled = 0
  /\ lastHandled = NoHandled
  /\ sel = [called |-> FALSE]
  /\ ticks = 0
  /\ lastCmd = NoCmd
  /\ harvest = HarvestAtBoot(file, MaxPokemon, now)
  /\ lockFile = FALSE
  /\ ServerAtBoot

\* one call of getNextPokemonToRefresh, lines 170-208
SelectorCall ==
  /\ sel.called = FALSE
  /\ LET d == loadData(file) IN
       /\ sel' = [called |-> TRUE, value |-> getNextPokemonToRefresh(d, now)]
       /\ stats' = [stats EXCEPT !.cycleProgress = CycleProgressOf(d, now)]
  /\ UNCHANGED <<lockFile, ServerVars, harvest, now, isRunning, isPaused, file, loops, limiter, resumeTimers,
                 cmdsLeft, nDispatch, lastDispatch, nHandled, lastHandled, ticks, lastCmd>>

\* a day passes before the call
SelectorDay ==
  /\ sel.called = FALSE
  /\ ticks < MaxTicks
  /\ ticks' = ticks + 1
  /\ now' = now + DayMs
  /\ UNCHANGED <<lockFile, ServerVars, harvest, isRunning, isPaused, stats, file, loops, limiter, resumeTimers,
                 cmdsLeft, nDispatch, lastDispatch, nHandled, lastHandled, sel, lastCmd>>

NextSel == SelectorCall \/ SelectorDay

SpecSel == InitSel /\ [][NextSel]_vars

(***************************************************************************)
(* Claims about the selector                                               *)
(***************************************************************************)
\* a is at least as old as b
AgeGeq(a, b) == a = Infinity \/ (b # Infinity /\ a >= b)

SelAges == [k \in PairIds |-> AgeOf(loadData(file), k, now)]

\* C1: the selector returns a pair whose age is maximal among all pairs whose
\* age exceeds the 7-day threshold (and a pair at all whenever one exceeds it)
C1_SelectorReturnsOldestStale ==
  sel.called =>
    IF \E k \in PairIds : IsStaleAge(SelAges[k])
      THEN /\ sel.value # Null
           /\ sel.value.pair \in PairIds
           /\ sel.value.age = SelAges[sel.value.pair]
           /\ IsStaleAge(sel.value.age)
           /\ \A k \in PairIds :
                IsStaleAge(SelAges[k]) => AgeGeq(sel.value.age, SelAges[k])
      ELSE sel.value = Null

\* witness of C1: a call answered with a finite-age pair while another stale
\* pair of a different, smaller age exists
C1_Witness ==
  /\ sel.called
  /\ sel.value # Null
  /\ sel.value.age # Infinity
  /\ \E k \in PairIds : IsStaleAge(SelAges[k]) /\ SelAges[k] # sel.value.age

\* C5: when every pair has age <= the threshold (age = threshold included) the
\* selector returns no pair and the progress it computes is 100
C5_AllWithinThresholdIsComplete ==
  (sel.called /\ \A k \in PairIds : SelAges[k] # Infinity /\ SelAges[k] <= StaleMs)
    => (sel.value = Null /\ stats.cycleProgress = 100)


(***************************************************************************)
(* Spec: the refresh scheduler with its operator commands                  *)
(***************************************************************************)
\* documents the durable file may hold when the service is constructed
MixedDoc ==
  [entries |-> [k \in PairIds |->
                  IF k = 2 THEN MkEntry(NowInit - 9 * DayMs, FALSE, "real")
                  ELSE IF k = 3 THEN MkEntry(NowInit - 8 * DayMs, FALSE, "real")
                  ELSE MkEntry(NowInit - DayMs, FALSE, "real")],
   lastUpdate |-> NowInit - DayMs, topicIds |-> FALSE]
InitFiles == {<<>>, stringify(MixedDoc)}

\* new Bottleneck({minTime, maxConcurrent: 1, reservoir: 1, ...})
InitLimiter == [stopped |-> FALSE, running |-> 0, reservoir |-> ReservoirAmount,
                nextRequest |-> 0, queue |-> <<>>]

\* the number of reservoir refreshes due by clock reading t: one every
\* reservoirRefreshInterval since the limiter was made
RefreshesBy(t) == (t - NowInit) \div ReservoirRefreshInterval

Init ==
  /\ now = NowInit
  /\ isRunning = FALSE
  /\ isPaused = FALSE
  /\ stats = InitStats
  /\ file \in InitFiles
  /\ loops = [l \in LoopIds |-> NoLoop]
  /\ limiter = InitLimiter
  /\ resumeTimers = <<>>
  /\ cmdsLeft = MaxCmds
  /\ nDispatch = 0
  /\ lastDispatch = NoDispatch
  /\ nHandled = 0
  /\ lastHandled = NoHandled
  /\ sel = [called |-> FALSE]
  /\ ticks = 0
  /\ lastCmd = NoCmd
  /\ harvest = HarvestAtBoot(file, MaxPokemon, now)
  /\ lockFile = FALSE
  /\ ServerAtBoot

Sleeping(pc) == pc \in {"startup", "pollSleep", "cycleBreak", "pacing", "errorWait"}

\* the head of refreshLoop, lines 78-86, run in the same turn as the
\* continuation before it: leave, sleep a minute when paused, or start to read
\* the data file
Top(run, paused) ==
  IF ~run THEN NoLoop
  ELSE IF paused THEN [NoLoop EXCEPT !.pc = "pollSleep", !.wakeAt = now + PausePollMs]
  ELSE [NoLoop EXCEPT !.pc = "select"]

\* the catch of refreshLoop, lines 129-132
CaughtCrash == NoLoop

Caught == [NoLoop EXCEPT !.pc = "errorWait", !.wakeAt = now + ErrorWaitMs]

\* lines 102-107: record the current Pokemon and hand the fetch to the limiter;
\* a stopped limiter rejects the job, which the loop catches
Schedule(l, k, st) ==
  /\ stats' = [st EXCEPT !.currentPokemon = PairOf(k).name]
  /\ IF limiter.stopped
       THEN /\ loops' = [loops EXCEPT ![l] = Caught]
            /\ UNCHANGED limiter
       ELSE /\ loops' = [loops EXCEPT ![l] = [NoLoop EXCEPT !.pc = "gate", !.pair = k]]
            /\ limiter' = [limiter EXCEPT !.queue = Append(@, l)]

(***************************************************************************)
(* Operator commands                                                       *)
(***************************************************************************)
\* start(), lines 38-49, up to the startup delay
startAlways ==
  /\ cmdsLeft > 0
  /\ cmdsLeft' = cmdsLeft - 1
  /\ lastCmd' = Answer("start", TRUE, "Started")
  /\ \E l \in LoopIds :
       /\ loops[l].pc = "none"
       /\ \A m \in LoopIds : loops[m].pc = "none" => l <= m
       /\ loops' = [loops EXCEPT ![l] =
            [NoLoop EXCEPT !.pc = "startup", !.wakeAt = now + StartupDelayMs]]
  /\ isRunning' = TRUE
  /\ isPaused' = FALSE
  /\ UNCHANGED <<lockFile, ServerVars, harvest, now, stats, file, limiter, resumeTimers, nDispatch, lastDispatch,
                 nHandled, lastHandled, sel, ticks>>

start ==
  /\ cmdsLeft > 0
  /\ cmdsLeft' = cmdsLeft - 1
  /\ IF isRunning
       THEN /\ lastCmd' = Answer("start", FALSE, "Already running")
            /\ UNCHANGED <<isRunning, isPaused, loops>>
       ELSE /\ lastCmd' = Answer("start", TRUE, "Started")
            /\ \E l \in LoopIds :
                 /\ loops[l].pc = "none"
                 /\ \A m \in LoopIds : loops[m].pc = "none" => l <= m
                 /\ loops' = [loops EXCEPT ![l] =
                      [NoLoop EXCEPT !.pc = "startup", !.wakeAt = now + StartupDelayMs]]
            /\ isRunning' = TRUE
            /\ isPaused' = FALSE
  /\ UNCHANGED <<lockFile, ServerVars, harvest, now, stats, file, limiter, resumeTimers, nDispatch, lastDispatch,
                 nHandled, lastHandled, sel, ticks>>

\* start(), lines 50-58: the startup delay is over, refreshLoop() is entered
startLoop(l) ==
  /\ loops[l].pc = "startup"
  /\ now >= loops[l].wakeAt
  /\ loops' = [loops EXCEPT ![l] = Top(isRunning, isPaused)]
  /\ UNCHANGED <<lockFile, ServerVars, harvest, now, isRunning, isPaused, stats, file, limiter, resumeTimers, cmdsLeft,
                 nDispatch, lastDispatch, nHandled, lastHandled, sel, ticks, lastCmd>>

\* stop(), lines 61-65: limiter.stop() drops the queued jobs (each rejects,
\* which its loop catches) and lets the running job finish; a limiter that
\* was stopped before rejects stop(), and so does the endpoint's handler
stopKeepsLimiter ==
  /\ cmdsLeft > 0
  /\ cmdsLeft' = cmdsLeft - 1
  /\ isRunning' = FALSE
  /\ lastCmd' = Answer("stop", TRUE, "Stopped")
  /\ UNCHANGED <<lockFile, ServerVars, harvest, now, isPaused, stats, file, loops, limiter, resumeTimers, nDispatch,
                 lastDispatch, nHandled, lastHandled, sel, ticks>>

stop ==
  /\ cmdsLeft > 0
  /\ cmdsLeft' = cmdsLeft - 1
  /\ isRunning' = FALSE
  /\ IF limiter.stopped
       THEN /\ lastCmd' = Rejected("stop")
            /\ UNCHANGED <<limiter, loops>>
       ELSE /\ lastCmd' = Answer("stop", TRUE, "Stopped")
            /\ limiter' = [limiter EXCEPT !.stopped = TRUE, !.queue = <<>>]
            /\ loops' = [l \in LoopIds |->
                           IF loops[l].pc = "gate" THEN Caught ELSE loops[l]]
  /\ UNCHANGED <<lockFile, ServerVars, harvest, now, isPaused, stats, file, resumeTimers, nDispatch, lastDispatch,
                 nHandled, lastHandled, sel, ticks>>

\* pause(), lines 67-70
pauseCounts ==
  /\ cmdsLeft > 0
  /\ cmdsLeft' = cmdsLeft - 1
  /\ isPaused' = TRUE
  /\ stats' = [stats EXCEPT !.blockedCount = @ + 1]
  /\ lastCmd' = Answer("pause", TRUE, "Paused")
  /\ UNCHANGED <<lockFile, ServerVars, harvest, now, isRunning, file, loops, limiter, resumeTimers,
                 nDispatch, lastDispatch, nHandled, lastHandled, sel, ticks>>

pause ==
  /\ cmdsLeft > 0
  /\ cmdsLeft' = cmdsLeft - 1
  /\ isPaused' = TRUE
  /\ lastCmd' = Answer("pause", TRUE, "Paused")
  /\ UNCHANGED <<lockFile, ServerVars, harvest, now, isRunning, stats, file, loops, limiter, resumeTimers,
                 nDispatch, lastDispatch, nHandled, lastHandled, sel, ticks>>

\* resume(), lines 72-75
resume ==
  /\ cmdsLeft > 0
  /\ cmdsLeft' = cmdsLeft - 1
  /\ isPaused' = FALSE
  /\ lastCmd' = Answer("resume", TRUE, "Resumed")
  /\ UNCHANGED <<lockFile, ServerVars, harvest, now, isRunning, stats, file, loops, limiter, resumeTimers,
                 nDispatch, lastDispatch, nHandled, lastHandled, sel, ticks>>

\* the timer of line 115 fires: this.resume()
autoResume ==
  /\ \E i \in 1..Len(resumeTimers) :
       /\ now >= resumeTimers[i]
       /\ resumeTimers' = SubSeq(resumeTimers, 1, i - 1)
                            \o SubSeq(resumeTimers, i + 1, Len(resumeTimers))
  /\ isPaused' = FALSE
  /\ UNCHANGED <<lockFile, ServerVars, harvest, now, isRunning, stats, file, loops, limiter, cmdsLeft, nDispatch,
                 lastDispatch, nHandled, lastHandled, sel, ticks, lastCmd>>


(***************************************************************************)
(* The refresh loop, one action per continuation                           *)
(***************************************************************************)
\* a sleep of lines 80, 91 or 131 is over: continue at the head of the loop
wake(l) ==
  /\ loops[l].pc \in {"pollSleep", "cycleBreak", "errorWait"}
  /\ now >= loops[l].wakeAt
  /\ loops' = [loops EXCEPT ![l] = Top(isRunning, isPaused)]
  /\ UNCHANGED <<lockFile, ServerVars, harvest, now, isRunning, isPaused, stats, file, limiter, resumeTimers, cmdsLeft,
                 nDispatch, lastDispatch, nHandled, lastHandled, sel, ticks, lastCmd>>

\* lines 86-107: the data file has been read; select, then finish the cycle,
\* start the pacing pause, or schedule the fetch
select(l) ==
  /\ loops[l].pc = "select"
  /\ LET d == loadData(file)
         pokemon == getNextPokemonToRefresh(d, now)
         st == [stats EXCEPT !.cycleProgress = CycleProgressOf(d, now)]
     IN IF pokemon = Null
          THEN /\ stats' = [st EXCEPT !.cycleProgress = 0]
               /\ loops' = [loops EXCEPT ![l] =
                    [NoLoop EXCEPT !.pc = "cycleBreak", !.wakeAt = now + CycleBreakMs]]
               /\ UNCHANGED limiter
          ELSE IF stats.currentPokemon # "" /\ stats.currentPokemon # pokemon.name
            THEN /\ stats' = st
                 /\ \E r \in {0, PacingSpanMs} :
                      loops' = [loops EXCEPT ![l] =
                        [NoLoop EXCEPT !.pc = "pacing", !.pair = pokemon.pair,
                                       !.wakeAt = now + PacingMinMs + r]]
                 /\ UNCHANGED limiter
          ELSE Schedule(l, pokemon.pair, st)
  /\ UNCHANGED <<lockFile, ServerVars, harvest, now, isRunning, isPaused, file, resumeTimers, cmdsLeft, nDispatch,
                 lastDispatch, nHandled, lastHandled, sel, ticks, lastCmd>>

\* lines 99-107: the pacing pause is over
afterPacing(l) ==
  /\ loops[l].pc = "pacing"
  /\ now >= loops[l].wakeAt
  /\ Schedule(l, loops[l].pair, stats)
  /\ UNCHANGED <<lockFile, ServerVars, harvest, now, isRunning, isPaused, file, resumeTimers, cmdsLeft, nDispatch,
                 lastDispatch, nHandled, lastHandled, sel, ticks, lastCmd>>

\* the limiter launches the job at the head of its queue: no job is running,
\* the reservoir holds a token and minTime has passed since the last launch;
\* the job calls fetchWithBlockDetection, which calls trendsService.getTrends
launchOverlapping(l) ==
  /\ limiter.queue # <<>>
  /\ l = Head(limiter.queue)
  /\ nDispatch < MaxDispatch
  /\ limiter' = [limiter EXCEPT !.queue = Tail(@), !.running = @ + 1,
                                !.nextRequest = now]
  /\ loops' = [loops EXCEPT ![l].pc = "fetching"]
  /\ nDispatch' = nDispatch + 1
  /\ lastDispatch' = [t |-> now, prev |-> lastDispatch.t, pair |-> loops[l].pair]
  /\ UNCHANGED <<lockFile, ServerVars, harvest, now, isRunning, isPaused, stats, file, resumeTimers, cmdsLeft,
                 nHandled, lastHandled, sel, ticks, lastCmd>>

launch(l) ==
  /\ limiter.queue # <<>>
  /\ l = Head(limiter.queue)
  /\ limiter.running < MaxConcurrent
  /\ limiter.reservoir >= 1
  /\ now >= limiter.nextRequest
  /\ nDispatch < MaxDispatch
  /\ limiter' = [limiter EXCEPT !.queue = Tail(@), !.running = @ + 1,
                                !.reservoir = @ - 1, !.nextRequest = now + MinTime]
  /\ loops' = [loops EXCEPT ![l].pc = "fetching"]
  /\ nDispatch' = nDispatch + 1
  /\ lastDispatch' = [t |-> now, prev |-> lastDispatch.t, pair |-> loops[l].pair]
  /\ UNCHANGED <<lockFile, ServerVars, harvest, now, isRunning, isPaused, stats, file, resumeTimers, cmdsLeft,
                 nHandled, lastHandled, sel, ticks, lastCmd>>

\* what kind of response it was, in the words of the documentation: markup
\* instead of JSON, a rate-limit error, or anything else
HtmlShaped(p) ==
  /\ p.type = "string"
  /\ p.text # <<>>
  /\ p.text[1] \in {"<!DOCTYPE", "<!doctype", "<html"}
RateLimitSignature(p) == p.type = "throw" /\ includes(p.text, "429")
Shape(o) == IF o \in UpstreamCalls THEN UpstreamShape(o)
            ELSE IF HtmlShaped(Payload(o)) THEN "html"
            ELSE IF RateLimitSignature(Payload(o)) THEN "rateLimit" ELSE "other"

\* cmds: the number of commands left when the result was handled
Handled(l, o) == [t |-> now, pair |-> loops[l].pair,
                  class |-> fetchWithBlockDetection(Payload(o)), shape |-> Shape(o),
                  cmds |-> cmdsLeft]

\* getTrends settles with response o, fetchWithBlockDetection classifies it,
\* the limiter frees the job and the loop continues at line 109
Settles(l, o, class) ==
  /\ loops[l].pc = "fetching"
  /\ fetchWithBlockDetection(Payload(o)) = class
  /\ limiter' = [limiter EXCEPT !.running = @ - 1]

\* lines 109-116 and 127: a blocked result
handleBlockedEndsLoop(l, o) ==
  /\ Settles(l, o, "blocked")
  /\ stats' = [stats EXCEPT !.blockedCount = @ + 1, !.lastRun = now]
  /\ isPaused' = TRUE
  /\ resumeTimers' = Append(resumeTimers, now + AutoResumeMs)
  /\ loops' = [loops EXCEPT ![l] = NoLoop]
  /\ nHandled' = nHandled + 1
  /\ lastHandled' = Handled(l, o)
  /\ UNCHANGED <<lockFile, ServerVars, harvest, now, isRunning, file, cmdsLeft, nDispatch, lastDispatch, sel, ticks,
                 lastCmd>>

\* (a variant that stores a fallback entry for the blocked pair)
handleBlockedSaves(l, o) ==
  /\ Settles(l, o, "blocked")
  /\ stats' = [stats EXCEPT !.blockedCount = @ + 1, !.lastRun = now]
  /\ isPaused' = TRUE
  /\ resumeTimers' = Append(resumeTimers, now + AutoResumeMs)
  /\ loops' = [loops EXCEPT ![l] = Top(isRunning, TRUE)]
  /\ nHandled' = nHandled + 1
  /\ lastHandled' = Handled(l, o)
  /\ file' = stringify([loadData(file) EXCEPT
                          !.entries[loops[l].pair] = MkEntry(now, TRUE, "fallback"),
                          !.lastUpdate = now])
  /\ UNCHANGED <<lockFile, ServerVars, harvest, now, isRunning, cmdsLeft, nDispatch, lastDispatch, sel, ticks, lastCmd>>

handleBlocked(l, o) ==
  /\ Settles(l, o, "blocked")
  /\ stats' = [stats EXCEPT !.blockedCount = @ + 1, !.lastRun = now]
  /\ isPaused' = TRUE
  /\ resumeTimers' = Append(resumeTimers, now + AutoResumeMs)
  /\ loops' = [loops EXCEPT ![l] = Top(isRunning, TRUE)]
  /\ nHandled' = nHandled + 1
  /\ lastHandled' = Handled(l, o)
  /\ UNCHANGED <<lockFile, ServerVars, harvest, now, isRunning, file, cmdsLeft, nDispatch, lastDispatch, sel, ticks, lastCmd>>

\* lines 122-127: a failed result
handleFailure(l, o) ==
  /\ Settles(l, o, "failure")
  /\ stats' = [stats EXCEPT !.failureCount = @ + 1, !.lastRun = now]
  /\ loops' = [loops EXCEPT ![l] = Top(isRunning, isPaused)]
  /\ nHandled' = nHandled + 1
  /\ lastHandled' = Handled(l, o)
  /\ UNCHANGED <<lockFile, ServerVars, harvest, now, isRunning, isPaused, file, resumeTimers, cmdsLeft,
                 nDispatch, lastDispatch, sel, ticks, lastCmd>>

\* lines 117-119: a successful result; saveData starts to read the file
handleSuccess(l, o) ==
  /\ Settles(l, o, "success")
  /\ stats' = [stats EXCEPT !.successCount = @ + 1]
  /\ loops' = [loops EXCEPT ![l].pc = "saveLoad", ![l].outcome = o]
  /\ UNCHANGED <<lockFile, ServerVars, harvest, now, isRunning, isPaused, file, resumeTimers, cmdsLeft,
                 nDispatch, lastDispatch, nHandled, lastHandled, sel, ticks, lastCmd>>

\* saveData, lines 282-293: the file has been read; the entry and
\* metadata.lastUpdate are set in the loaded document
saveLoad(l) ==
  /\ loops[l].pc = "saveLoad"
  /\ loops' = [loops EXCEPT ![l].pc = "saveOpen", ![l].content = file,
                 ![l].doc = [loadData(file) EXCEPT
                    !.entries[loops[l].pair] = SavedEntry(Payload(loops[l].outcome), now),
                    !.lastUpdate = now]]
  /\ UNCHANGED <<lockFile, ServerVars, harvest, now, isRunning, isPaused, stats, file, limiter, resumeTimers, cmdsLeft,
                 nDispatch, lastDispatch, nHandled, lastHandled, sel, ticks, lastCmd>>

\* saveData, line 295: fs.writeFile opens dataPath for writing, truncating it
saveOpen(l) ==
  /\ loops[l].pc = "saveOpen"
  /\ file' = <<>>
  /\ loops' = [loops EXCEPT ![l].pc = "saveWrite"]
  /\ UNCHANGED <<lockFile, ServerVars, harvest, now, isRunning, isPaused, stats, limiter, resumeTimers, cmdsLeft,
                 nDispatch, lastDispatch, nHandled, lastHandled, sel, ticks, lastCmd>>

\* saveData, line 295: a first part of the text has been written
saveWritePart(l) ==
  /\ loops[l].pc = "saveWrite"
  /\ file = <<>>
  /\ file' = SubSeq(stringify(loops[l].doc), 1, Len(stringify(loops[l].doc)) \div 2)
  /\ UNCHANGED <<lockFile, ServerVars, harvest, now, isRunning, isPaused, stats, loops, limiter, resumeTimers, cmdsLeft,
                 nDispatch, lastDispatch, nHandled, lastHandled, sel, ticks, lastCmd>>

\* saveData, line 295, and lines 120-127: the text is written in full,
\* the iteration ends
saveWrite(l) ==
  /\ loops[l].pc = "saveWrite"
  /\ file' = stringify(loops[l].doc)
  /\ stats' = [stats EXCEPT !.lastRun = now]
  /\ loops' = [loops EXCEPT ![l] = Top(isRunning, isPaused)]
  /\ nHandled' = nHandled + 1
  /\ lastHandled' = Handled(l, loops[l].outcome)
  /\ UNCHANGED <<lockFile, ServerVars, harvest, now, isRunning, isPaused, limiter, resumeTimers, cmdsLeft, nDispatch,
                 lastDispatch, sel, ticks, lastCmd>>

\* saveData, line 295: fs.writeFile rejects (the open or the write fails); the
\* catch of lines 129-132 takes over, line 127 is skipped
saveThrows(l) ==
  /\ loops[l].pc \in {"saveOpen", "saveWrite"}
  /\ loops' = [loops EXCEPT ![l] = Caught]
  /\ nHandled' = nHandled + 1
  /\ lastHandled' = [Handled(l, loops[l].outcome) EXCEPT !.class = "exception"]
  /\ UNCHANGED <<lockFile, ServerVars, harvest, now, isRunning, isPaused, stats, file, limiter, resumeTimers, cmdsLeft,
                 nDispatch, lastDispatch, sel, ticks, lastCmd>>

(***************************************************************************)
(* The clock                                                               *)
(***************************************************************************)
\* the clock readings at which something pending becomes due
Deadlines ==
  {loops[l].wakeAt : l \in {m \in LoopIds : Sleeping(loops[m].pc)}}
    \cup {resumeTimers[i] : i \in 1..Len(resumeTimers)}
    \cup (IF limiter.queue # <<>>
            THEN {limiter.nextRequest,
                  NowInit + (RefreshesBy(now) + 1) * ReservoirRefreshInterval}
            ELSE {})

\* time passes up to one of the pending deadlines; what became due earlier
\* runs late, except the limiter's heartbeat, which sets the reservoir back
\* to reservoirRefreshAmount whenever a refresh interval ends
tick ==
  /\ ticks < MaxTicks
  /\ ticks' = ticks + 1
  /\ \E t \in Deadlines : t > now /\ now' = t
  /\ limiter' = [limiter EXCEPT !.reservoir = IF RefreshesBy(now') > RefreshesBy(now)
                                                THEN ReservoirAmount ELSE @]
  /\ UNCHANGED <<lockFile, ServerVars, harvest, isRunning, isPaused, stats, file, loops, resumeTimers,
                 cmdsLeft, nDispatch, lastDispatch, nHandled, lastHandled, sel, lastCmd>>

(***************************************************************************)
(* The harvest, one action per continuation of doHarvest.  In             *)
(* fetchReturns and fetchExhausted the attempts of fetchAndSave are folded *)
(* into their outcome; fetchAndSave below takes them one by one.           *)
(***************************************************************************)
SaveEvery == 20

SchedulerVars == <<now, isRunning, isPaused, stats, loops, limiter, resumeTimers,
                   cmdsLeft, nDispatch, lastDispatch, nHandled, lastHandled, sel,
                   ticks, lastCmd>>

\* the choices of the options targetPokemon and targetCountries made by the
\* caller of POST /admin/harvest
TargetPokemonChoices == {Null, [names |-> {1}]}
TargetCountryChoices == {Null, [codes |-> <<2>>]}

\* startBackgroundHarvest, lines 94-133, and doHarvest up to its first await,
\* lines 138-145: loadExistingData() and the call of the list fetcher
startBackgroundHarvest(tp, tc) ==
  /\ ~harvest.isHarvesting
  /\ harvest.runs < MaxHarvests
  /\ harvest' = [harvest EXCEPT !.isHarvesting = TRUE, !.pc = "list",
                                !.currentData = loadExistingData(file, now),
                                !.targetPokemon = tp, !.targetCountries = tc,
                                !.runs = @ + 1,
                                !.status = "started", !.starts = @ + 1]
  /\ lockFile' = TRUE
  /\ UNCHANGED <<file, SchedulerVars, ServerVars>>

\* the for loop of lines 160-168 moves on to the next pair, or leaves
NextItemKeepsCount(h) ==
  [h EXCEPT !.item = @ + 1,
            !.pc = IF h.item + 1 > Len(h.toFetch) THEN "finish" ELSE "fetch"]

NextItem(h) ==
  [h EXCEPT !.progress.current = @ + 1, !.item = @ + 1,
            !.pc = IF h.item + 1 > Len(h.toFetch) THEN "finish" ELSE "fetch"]

\* doHarvest, lines 145-160: the list has arrived; the stale pairs are chosen
\* and the progress is reset
harvestList ==
  /\ harvest.pc = "list"
  /\ LET toFetch == getStaleEntries(harvest.currentData, harvest.n,
                                    harvest.targetPokemon, harvest.targetCountries, now)
     IN harvest' = [harvest EXCEPT
                      !.toFetch = toFetch,
                      !.progress = [NoProgress EXCEPT !.total = Len(toFetch)],
                      !.item = 1,
                      !.pc = IF toFetch = <<>> THEN "finish" ELSE "fetch"]
  /\ UNCHANGED <<file, lockFile, SchedulerVars, ServerVars>>

\* fetchAndSave, lines 228-266: the client returns data (at the first attempt
\* or a later one); the entry is stored and counted, and saveData is awaited
\* when progress.current is a multiple of 20
fetchReturns(fb) ==
  /\ harvest.pc = "fetch"
  /\ fb => harvest.progress.fallbackCount < MaxFallbacks
  /\ LET h == [harvest EXCEPT
                 !.currentData.entries[harvest.toFetch[harvest.item]] = FetchedEntry(fb, now),
                 !.progress.successCount = IF fb THEN @ ELSE @ + 1,
                 !.progress.fallbackCount = IF fb THEN @ + 1 ELSE @]
     IN harvest' = IF harvest.progress.current % SaveEvery = 0
                     THEN [h EXCEPT !.pc = "save"]
                     ELSE NextItem(h)
  /\ UNCHANGED <<file, lockFile, SchedulerVars, ServerVars>>

\* fetchAndSave, lines 267-289: every attempt has thrown; a fallback entry is
\* stored and counted
fetchExhausted ==
  /\ harvest.pc = "fetch"
  /\ harvest.progress.fallbackCount < MaxFallbacks
  /\ harvest' = NextItem([harvest EXCEPT
                   !.currentData.entries[harvest.toFetch[harvest.item]] =
                      ExhaustedEntry(now),
                   !.progress.fallbackCount = @ + 1])
  /\ UNCHANGED <<file, lockFile, SchedulerVars, ServerVars>>

\* saveData, lines 302-315, awaited at line 263: the text of currentData is
\* written to the temporary file, which is renamed to the data file
harvestSave ==
  /\ harvest.pc = "save"
  /\ file' = StringifyAll(harvest.currentData)
  /\ harvest' = NextItem([harvest EXCEPT !.currentData.lastUpdate = now])
  /\ UNCHANGED <<lockFile, SchedulerVars, ServerVars>>

\* doHarvest, lines 170-180, and the finally of lines 125-130: the metadata is
\* updated, the document is saved and the harvest is over
harvestFinish ==
  /\ harvest.pc = "finish"
  /\ file' = StringifyAll([harvest.currentData EXCEPT !.lastUpdate = now])
  /\ harvest' = [harvest EXCEPT !.currentData.lastUpdate = now, !.pc = "idle",
                                !.isHarvesting = FALSE]
  /\ lockFile' = FALSE
  /\ UNCHANGED <<SchedulerVars, ServerVars>>

\* startBackgroundHarvest, lines 94-106, when writeFileSync of the lock file
\* throws (the data directory does not exist yet, or cannot be written):
\* isHarvesting is already true, the call rejects and doHarvest is not run
startLockFails ==
  /\ ~harvest.isHarvesting
  /\ harvest.starts < MaxStarts
  /\ harvest' = [harvest EXCEPT !.isHarvesting = TRUE, !.status = "rejected",
                                !.starts = @ + 1]
  /\ lockFile' = FALSE
  /\ UNCHANGED <<file, SchedulerVars, ServerVars>>

\* startBackgroundHarvest, lines 95-97, while isHarvesting
startWhileHarvestingRestarts ==
  /\ harvest.isHarvesting
  /\ harvest.starts < MaxStarts
  /\ harvest' = [harvest EXCEPT !.status = "already_running", !.starts = @ + 1,
                                !.progress = NoProgress]
  /\ UNCHANGED <<file, lockFile, SchedulerVars, ServerVars>>

startWhileHarvesting ==
  /\ harvest.isHarvesting
  /\ harvest.starts < MaxStarts
  /\ harvest' = [harvest EXCEPT !.status = "already_running", !.starts = @ + 1]
  /\ UNCHANGED <<file, lockFile, SchedulerVars, ServerVars>>

\* doHarvest, line 145, when pokemonListFetcher rejects: the catch and the
\* finally of lines 122-130
harvestListFails ==
  /\ harvest.pc = "list"
  /\ harvest' = [harvest EXCEPT !.pc = "idle", !.isHarvesting = FALSE]
  /\ lockFile' = FALSE
  /\ UNCHANGED <<file, SchedulerVars, ServerVars>>

\* what one invocation of the trends client may do: throw, or return data
\* (real data without or with a topicId, or fallback data)
ClientAnswers == {"throws", "data", "dataWithTopic", "fallbackData"}

\* fetchAndSave, lines 228-275: the attempt at which the function returns, 0
\* when none does.  An attempt fails when the client throws, and when line
\* 250 reads this.currentData.topicIds[name] of a document without topicIds
\* (the entry was stored at line 238, the TypeError is caught at line 267)
RECURSIVE ReturningAttempt(_, _, _)
ReturningAttempt(as, attempt, hasTopicIds) ==
  IF attempt > MaxRetries THEN 0
  ELSE IF as[attempt] = "throws" \/ (as[attempt] = "dataWithTopic" /\ ~hasTopicIds)
    THEN ReturningAttempt(as, attempt + 1, hasTopicIds)
  ELSE attempt

\* fetchAndSave, lines 224-289, for the answers the client gives to its
\* successive invocations
fetchAndSave(as) ==
  /\ harvest.pc = "fetch"
  /\ LET i == ReturningAttempt(as, 1, harvest.currentData.topicIds)
         k == harvest.toFetch[harvest.item]
     IN IF i = 0
          THEN harvest' = NextItem([harvest EXCEPT
                             !.currentData.entries[k] = ExhaustedEntry(now),
                             !.progress.fallbackCount = @ + 1,
                             !.answers = as, !.invocations = MaxRetries])
          ELSE LET fb == as[i] = "fallbackData"
                   h == [harvest EXCEPT
                           !.currentData.entries[k] = FetchedEntry(fb, now),
                           !.progress.successCount = IF fb THEN @ ELSE @ + 1,
                           !.progress.fallbackCount = IF fb THEN @ + 1 ELSE @,
                           !.answers = as, !.invocations = i]
               IN harvest' = IF harvest.progress.current % SaveEvery = 0
                               THEN [h EXCEPT !.pc = "save"]
                               ELSE NextItem(h)
  /\ UNCHANGED <<file, lockFile, SchedulerVars, ServerVars>>

Next ==
  \/ start
  \/ stop
  \/ pause
  \/ resume
  \/ autoResume
  \/ tick
  \/ \E l \in LoopIds :
       \/ startLoop(l)
       \/ wake(l)
       \/ select(l)
       \/ afterPacing(l)
       \/ launch(l)
       \/ saveLoad(l)
       \/ saveOpen(l)
       \/ saveWritePart(l)
       \/ saveWrite(l)
       \/ saveThrows(l)
       \/ \E o \in Outcomes :
            \/ handleBlocked(l, o)
            \/ handleFailure(l, o)
            \/ handleSuccess(l, o)

Spec == Init /\ [][Next]_vars


(***************************************************************************)
(* Claims about the scheduler                                              *)
(***************************************************************************)
Stored == loadData(file)
MissingPairs == {k \in PairIds : ~Stored.entries[k].present}
MinOf(S) == CHOOSE k \in S : \A j \in S : k <= j
\* a saveData has truncated the file and not yet written it in full
Writing == \E l \in LoopIds : loops[l].pc = "saveWrite"
InFlight == {l \in LoopIds : loops[l].pc = "fetching"}

\* C2: with every entry missing the selector returns the first pair of the
\* enumeration; once a Success has been handled (its save is complete) the
\* selector returns the first still-missing pair, never the pair just updated
C2_NextMissingPairAfterSuccess ==
  LET r == getNextPokemonToRefresh(Stored, now) IN
    /\ MissingPairs = PairIds => (r # Null /\ r.pair = 1)
    /\ (nHandled >= 1 /\ lastHandled.class = "success" /\ ~Writing
          /\ MissingPairs # {})
         => (r # Null /\ r.pair = MinOf(MissingPairs) /\ r.pair # lastHandled.pair)

\* witness of C2: the one Success handled was for the first pair of an empty
\* dataset and the selector now answers the second pair
C2_Witness ==
  /\ nHandled = 1
  /\ lastHandled.class = "success"
  /\ lastHandled.pair = 1
  /\ ~Writing
  /\ MissingPairs = PairIds \ {1}
  /\ getNextPokemonToRefresh(Stored, now).pair = 2

\* C3: once a SoftFailure has been handled for a pair, the stored entry of the
\* pair is a fallback entry with lastFetched = the time of handling, so the
\* selector does not return the pair again while another pair is stale
C3_SoftFailureAdvancesClock ==
  (nHandled >= 1 /\ lastHandled.class = "failure" /\ ~Writing /\ now = lastHandled.t)
    => /\ Stored.entries[lastHandled.pair].present
       /\ Stored.entries[lastHandled.pair].fallback = TRUE
       /\ Stored.entries[lastHandled.pair].lastFetched = lastHandled.t
       /\ LET r == getNextPokemonToRefresh(Stored, now) IN
            (\E k \in PairIds \ {lastHandled.pair} : IsStaleAge(AgeOf(Stored, k, now)))
              => (r # Null /\ r.pair # lastHandled.pair)

\* C4: a pair whose fetch soft-failed is not the pair fetched next while
\* another pair of the universe is stale (so the others are not starved)
C4_FailedPairNotFetchedNext ==
  (nHandled >= 1 /\ nDispatch = nHandled + 1 /\ lastHandled.class = "failure"
     /\ ~Writing
     /\ \E k \in PairIds \ {lastHandled.pair} :
          IsStaleAge(AgeOf(Stored, k, lastDispatch.t)))
    => lastDispatch.pair # lastHandled.pair

\* C6: two invocations of the fetch capability never begin less than minTime
\* apart and at most maxConcurrent (1) of them is in flight
C6_RateGate ==
  /\ Cardinality(InFlight) <= MaxConcurrent
  /\ lastDispatch.prev # NoStamp => lastDispatch.t - lastDispatch.prev >= MinTime

\* witness of C6: a second fetch is in flight after operator commands
C6_Witness ==
  /\ nDispatch >= 2
  /\ lastDispatch.prev # NoStamp
  /\ cmdsLeft <= MaxCmds - 2
  /\ InFlight # {}

\* C7: the step that handles the first fetch, when the capability returned a
\* markup payload, leaves the scheduler paused with blockedCount = 1 and its
\* loop alive
C7_HtmlPayloadPauses ==
  [][(nHandled = 0 /\ nHandled' = 1 /\ lastHandled'.shape = "html")
       => (/\ isPaused'
           /\ stats'.blockedCount = 1
           /\ isRunning' => \E l \in LoopIds : loops'[l].pc # "none")]_vars

\* C8: the step that handles a fetch whose error carries a rate-limit
\* signature ("429") counts a block and pauses the scheduler
C8_RateLimitErrorPauses ==
  [][(nHandled' = nHandled + 1 /\ lastHandled'.shape = "rateLimit")
       => (isPaused' /\ stats'.blockedCount = stats.blockedCount + 1)]_vars

\* C9: at every point of a save (where a crash may happen) the durable file
\* holds the complete text read before the save or the complete new text
C9_SaveIsAtomic ==
  \A l \in LoopIds :
    loops[l].pc \in {"saveOpen", "saveWrite"}
      => file \in {loops[l].content, stringify(loops[l].doc)}

\* C10: no fetch is dispatched in a step taken while the scheduler is paused
C10_NoDispatchWhilePaused ==
  [][isPaused => nDispatch' = nDispatch]_vars

\* the latest command step: a command was issued in this step
CommandStep == cmdsLeft' = cmdsLeft - 1
\* isRunning is false from construction to the first start() and from each
\* stop() to the next start()
StoppedSince == ~isRunning

\* C12: after an operator's pause() that followed every handled fetch, with no
\* command since, the scheduler is still paused
C12_ManualPauseStays ==
  (lastCmd.name = "pause" /\ lastHandled.cmds > cmdsLeft) => isPaused

\* C13: after a block handled at time t with no command since, no fetch is
\* dispatched before t + 24 hours
C13_NoDispatchBeforeCooldown ==
  (lastHandled.class = "blocked" /\ cmdsLeft = lastHandled.cmds
     /\ lastDispatch.t > lastHandled.t)
    => lastDispatch.t >= lastHandled.t + AutoResumeMs

\* C14: a start() issued while isRunning answers false, "Already running",
\* and changes neither the flags, the counters, the loops nor the limiter
C14_StartWhileRunningIsNoOp ==
  [][(CommandStep /\ lastCmd'.name = "start" /\ isRunning)
       => (/\ lastCmd' = Answer("start", FALSE, "Already running")
           /\ UNCHANGED <<isRunning, isPaused, stats, loops, limiter, resumeTimers,
                          file>>)]_vars

\* witness of C14: start() was answered "Already running" while the scheduler
\* was paused by a block, one loop alive
C14_Witness ==
  /\ lastCmd = Answer("start", FALSE, "Already running")
  /\ isRunning /\ isPaused
  /\ stats.blockedCount = 1
  /\ Cardinality({l \in LoopIds : loops[l].pc # "none"}) = 1

\* C16: from stop() to the next start() isRunning is false and no step invokes
\* the fetch capability (a fetch in flight may still be handled)
C16_NoDispatchAfterStop ==
  [][/\ (lastCmd.name = "stop" => StoppedSince)
     /\ (StoppedSince => nDispatch' = nDispatch)]_vars

\* witness of C16: stop() came while the loop waited for the gate or was about
\* to schedule; the job was rejected and nothing was dispatched after stop()
C16_Witness ==
  /\ lastCmd.name = "stop"
  /\ \E l \in LoopIds : loops[l].pc = "errorWait"
  /\ nDispatch >= 1

\* C17: once stop() has been called no loop is left in a sleep or in the gate
\* wait
C17_StopCancelsSleeps ==
  StoppedSince => \A l \in LoopIds : ~Sleeping(loops[l].pc) /\ loops[l].pc # "gate"

\* C18: after a start() answered "Started" the rate gate admits the loop's
\* fetches (a stopped limiter rejects every job, so nothing is dispatched)
C18_RestartedGateAdmits ==
  lastCmd = Answer("start", TRUE, "Started") => ~limiter.stopped

\* what the command of that name establishes
PostOf(name) ==
  CASE name = "start" -> isRunning
    [] name = "stop" -> ~isRunning
    [] name = "pause" -> isPaused
    [] name = "resume" -> ~isPaused
    [] OTHER -> FALSE

\* C19: a command repeated right after itself completes without error and
\* leaves the scheduler as the first call left it
C19_CommandsIdempotent ==
  [][(CommandStep /\ lastCmd'.name = lastCmd.name /\ PostOf(lastCmd.name))
       => (/\ ~lastCmd'.error
           /\ UNCHANGED <<isRunning, isPaused, stats, loops, limiter, resumeTimers,
                          file>>)]_vars

\* C20: an exception caught in a loop iteration leaves isRunning and isPaused
\* as they are and puts the loop in the one-minute wait; a loop ends only when
\* isRunning is false
C20_ExceptionsKeepLoopAlive ==
  [][\A l \in LoopIds :
       /\ (~CommandStep /\ loops[l].pc # "errorWait" /\ loops'[l].pc = "errorWait")
            => (/\ isRunning' = isRunning /\ isPaused' = isPaused
                /\ loops'[l].wakeAt = now + ErrorWaitMs)
       /\ (loops[l].pc # "none" /\ loops'[l].pc = "none") => ~isRunning]_vars

\* witness of C20: a save threw, the loop waited a minute and a later fetch
\* was dispatched
C20_Witness ==
  /\ lastHandled.class = "exception"
  /\ isRunning
  /\ lastDispatch.t >= lastHandled.t + ErrorWaitMs

(***************************************************************************)
(* SpecCtl: the operator commands against a scheduler whose dataset is     *)
(* fresh.  No pair is stale, so the loop never schedules a fetch and the   *)
(* actions left out of NextCtl are never enabled; one more command than in *)
(* Spec is issued.                                                         *)
(***************************************************************************)
\* every pair fetched one day before the initial clock reading
FreshDoc ==
  [entries |-> [k \in PairIds |-> MkEntry(NowInit - DayMs, FALSE, "real")],
   lastUpdate |-> NowInit - DayMs, topicIds |-> FALSE]

InitCtl ==
  /\ now = NowInit
  /\ isRunning = FALSE
  /\ isPaused = FALSE
  /\ stats = InitStats
  /\ file = stringify(FreshDoc)
  /\ loops = [l \in LoopIds |-> NoLoop]
  /\ limiter = InitLimiter
  /\ resumeTimers = <<>>
  /\ cmdsLeft = MaxCmds + 1
  /\ nDispatch = 0
  /\ lastDispatch = NoDispatch
  /\ nHandled = 0
  /\ lastHandled = NoHandled
  /\ sel = [called |-> FALSE]
  /\ ticks = 0
  /\ lastCmd = NoCmd
  /\ harvest = HarvestAtBoot(file, MaxPokemon, now)
  /\ lockFile = FALSE
  /\ ServerAtBoot

NextCtl ==
  \/ start
  \/ stop
  \/ pause
  \/ resume
  \/ tick
  \/ \E l \in LoopIds :
       \/ startLoop(l)
       \/ wake(l)
       \/ select(l)

SpecCtl == InitCtl /\ [][NextCtl]_vars

\* the activations of refreshLoop that have been entered and have not returned
AliveLoops == {l \in LoopIds : loops[l].pc \notin {"none", "startup"}}

\* C15: at most one activation of refreshLoop is alive
C15_SingleLoop == Cardinality(AliveLoops) <= 1

(***************************************************************************)
(* SpecLive: the scheduler left to itself after the start() of the server's *)
(* boot (server.js, lines 109-113), on an installation without a data      *)
(* file: no operator command follows.  Timers fire when they are due, and  *)
(* every pending continuation is eventually run.                           *)
(***************************************************************************)
\* the clock is followed up to this reading
LiveHorizon == NowInit + (MaxDispatch + 1) * AutoResumeMs

InitLive ==
  /\ now = NowInit
  /\ isRunning = FALSE
  /\ isPaused = FALSE
  /\ stats = InitStats
  /\ file = <<>>
  /\ loops = [l \in LoopIds |-> NoLoop]
  /\ limiter = InitLimiter
  /\ resumeTimers = <<>>
  /\ cmdsLeft = 1
  /\ nDispatch = 0
  /\ lastDispatch = NoDispatch
  /\ nHandled = 0
  /\ lastHandled = NoHandled
  /\ sel = [called |-> FALSE]
  /\ ticks = 0
  /\ lastCmd = NoCmd
  /\ harvest = HarvestAtBoot(file, MaxPokemon, now)
  /\ lockFile = FALSE
  /\ ServerAtBoot

\* some continuation can run at the current clock reading
Due ==
  \/ \E i \in 1..Len(resumeTimers) : now >= resumeTimers[i]
  \/ \E l \in LoopIds :
       \/ loops[l].pc \in {"select", "fetching", "saveLoad", "saveOpen", "saveWrite"}
       \/ Sleeping(loops[l].pc) /\ now >= loops[l].wakeAt
       \/ /\ loops[l].pc = "gate"
          /\ limiter.queue # <<>> /\ l = Head(limiter.queue)
          /\ limiter.running < MaxConcurrent /\ limiter.reservoir >= 1
          /\ now >= limiter.nextRequest /\ nDispatch < MaxDispatch

\* every live loop sleeps in the pause poll of lines 79-81
Polling == \A l \in LoopIds : loops[l].pc \in {"none", "pollSleep"}

\* the first reading wakeAt + k * 60000 (k >= 0) that is not before t
NextPoll(wakeAt, t) ==
  IF wakeAt >= t THEN wakeAt
  ELSE wakeAt + ((t - wakeAt + PausePollMs - 1) \div PausePollMs) * PausePollMs

MinOfSet(S) == CHOOSE t \in S : \A u \in S : t <= u

\* time passes, once nothing is due, up to the earliest pending deadline.
\* While the scheduler is paused and every loop polls, each poll before the
\* earliest resume timer finds isPaused true and sleeps another minute: those
\* polls are taken in one step, up to the timer
tickLive ==
  /\ nDispatch < MaxDispatch
  /\ ~Due
  /\ IF isPaused /\ Polling /\ resumeTimers # <<>>
       THEN LET r == MinOfSet({resumeTimers[i] : i \in 1..Len(resumeTimers)}) IN
              /\ r <= LiveHorizon
              /\ now' = r
              /\ loops' = [l \in LoopIds |->
                             IF loops[l].pc = "pollSleep"
                               THEN [loops[l] EXCEPT !.wakeAt = NextPoll(@, r)]
                               ELSE loops[l]]
       ELSE /\ {t \in Deadlines : t > now} # {}
            /\ now' = MinOfSet({t \in Deadlines : t > now})
            /\ now' <= LiveHorizon
            /\ UNCHANGED loops
  /\ limiter' = [limiter EXCEPT !.reservoir = IF RefreshesBy(now') > RefreshesBy(now)
                                                THEN ReservoirAmount ELSE @]
  /\ UNCHANGED <<lockFile, ServerVars, harvest, isRunning, isPaused, stats, file, resumeTimers, cmdsLeft,
                 nDispatch, lastDispatch, nHandled, lastHandled, sel, ticks, lastCmd>>

\* the continuations of the refresh loops
LoopStep ==
  \E l \in LoopIds :
    \/ startLoop(l)
    \/ wake(l)
    \/ select(l)
    \/ afterPacing(l)
    \/ launch(l)
    \/ saveLoad(l)
    \/ saveOpen(l)
    \/ saveWritePart(l)
    \/ saveWrite(l)
    \/ saveThrows(l)
    \/ \E o \in Outcomes :
         \/ handleBlocked(l, o)
         \/ handleFailure(l, o)
         \/ handleSuccess(l, o)

NextLive == start \/ autoResume \/ tickLive \/ LoopStep

SpecLive ==
  /\ InitLive
  /\ [][NextLive]_vars
  /\ WF_vars(autoResume)
  /\ WF_vars(tickLive)
  /\ WF_vars(LoopStep)

\* C11: after a block has paused the running scheduler (with a fetch and a
\* day of the followed clock to spare) the scheduler is eventually not paused
\* with a newer fetch dispatched
C11_AutoResumeDispatchesAgain ==
  (/\ lastHandled.class = "blocked"
   /\ isRunning /\ isPaused
   /\ nDispatch = nHandled
   /\ nDispatch < MaxDispatch
   /\ lastHandled.t + AutoResumeMs + DayMs <= LiveHorizon)
    ~> (~isPaused /\ nDispatch > nHandled)

\* witness of C11: a fetch dispatched 24 hours or more after the block that
\* was handled last, the scheduler running and not paused
C11_Witness ==
  /\ lastHandled.class = "blocked"
  /\ isRunning /\ ~isPaused
  /\ nDispatch > nHandled
  /\ lastDispatch.t >= lastHandled.t + AutoResumeMs

(***************************************************************************)
(* Claims about failed saves, blocks and the counters                      *)
(***************************************************************************)
\* C21: once the save after a Success has failed, the selector (called at the
\* time of the failure) does not return the pair of that Success as stale
C21_FailedSaveKeepsEntry ==
  (lastHandled.class = "exception" /\ now = lastHandled.t /\ ~Writing)
    => LET r == getNextPokemonToRefresh(Stored, now) IN
         r = Null \/ r.pair # lastHandled.pair

\* the step handles a fetch classified as blocked
BlockHandled == nHandled' = nHandled + 1 /\ lastHandled'.class = "blocked"
\* the step starts no save
NoSaveBegins ==
  \A l \in LoopIds :
    loops'[l].pc \in {"saveLoad", "saveOpen", "saveWrite"} => loops'[l] = loops[l]

\* C26 as stated: handling a block leaves the durable file as it is, starts no
\* save, and changes nothing but blockedCount, the pause flag and the
\* auto-resume timers
C26_BlockChangesOnlyPauseState ==
  [][BlockHandled
       => (/\ file' = file
           /\ NoSaveBegins
           /\ isRunning' = isRunning
           /\ isPaused'
           /\ resumeTimers' = Append(resumeTimers, now + AutoResumeMs)
           /\ stats' = [stats EXCEPT !.blockedCount = @ + 1])]_vars

\* C26 as amended: handling a block leaves the durable file as it is, starts
\* no save, and changes nothing but blockedCount, lastRun, the pause flag and
\* the auto-resume timers
C26_BlockLeavesDatasetUnchanged ==
  [][BlockHandled
       => (/\ file' = file
           /\ NoSaveBegins
           /\ isRunning' = isRunning
           /\ isPaused'
           /\ resumeTimers' = Append(resumeTimers, now + AutoResumeMs)
           /\ stats' = [stats EXCEPT !.blockedCount = @ + 1, !.lastRun = now])]_vars

\* witness of C26: a block handled after a Success was saved; the file holds
\* no entry for the blocked pair
C26_Witness ==
  /\ lastHandled.class = "blocked"
  /\ stats.successCount >= 1
  /\ Parseable(file)
  /\ ~Stored.entries[lastHandled.pair].present
  /\ Stored.entries[1].present

Counters(st) == <<st.successCount, st.failureCount, st.blockedCount>>
\* the counters after one more outcome of the class
Counted(st, class) ==
  CASE class = "success" -> <<st.successCount + 1, st.failureCount, st.blockedCount>>
    [] class = "failure" -> <<st.successCount, st.failureCount + 1, st.blockedCount>>
    [] class = "blocked" -> <<st.successCount, st.failureCount, st.blockedCount + 1>>
\* the step classifies the result of loop l's fetch
Classified(l) == loops[l].pc = "fetching" /\ loops'[l].pc # "fetching"
\* the class it gave
ClassGiven(l) == IF loops'[l].pc = "saveLoad" THEN "success" ELSE lastHandled'.class

\* C29: a step that classifies a fetch result adds one to the counter of its
\* class and leaves the other two; every other step (commands included) leaves
\* the three counters as they are
C29_CountersCountOutcomes ==
  [][IF \E l \in LoopIds : Classified(l)
       THEN \A l \in LoopIds :
              Classified(l) => Counters(stats') = Counted(stats, ClassGiven(l))
       ELSE Counters(stats') = Counters(stats)]_vars

\* witness of C29: a Success and a block have been counted and the operator
\* has paused or stopped the scheduler since
C29_Witness ==
  /\ stats.successCount = 1
  /\ stats.blockedCount = 1
  /\ stats.failureCount = 0
  /\ lastCmd.name \in {"pause", "stop"}
  /\ lastHandled.class = "blocked"
  /\ lastHandled.cmds > cmdsLeft

\* C30: after a selector call the progress is round(100 * F / T), F the number
\* of pairs of age <= the threshold, T the number of pairs; it is in 0..100
C30_ProgressIsRoundedFreshShare ==
  LET F == Cardinality({k \in PairIds : SelAges[k] # Infinity /\ SelAges[k] <= StaleMs})
  IN sel.called =>
       /\ stats.cycleProgress = Round(100 * F, NumPairs)
       /\ stats.cycleProgress \in 0..100

(***************************************************************************)
(* SpecWired: the scheduler as server.js builds it (lines 102-113), its    *)
(* fetch capability being fetchTrendsData, started once at boot            *)
(***************************************************************************)
InitWired ==
  /\ now = NowInit
  /\ isRunning = FALSE
  /\ isPaused = FALSE
  /\ stats = InitStats
  /\ file \in InitFiles
  /\ loops = [l \in LoopIds |-> NoLoop]
  /\ limiter = InitLimiter
  /\ resumeTimers = <<>>
  /\ cmdsLeft = 1
  /\ nDispatch = 0
  /\ lastDispatch = NoDispatch
  /\ nHandled = 0
  /\ lastHandled = NoHandled
  /\ sel = [called |-> FALSE]
  /\ ticks = 0
  /\ lastCmd = NoCmd
  /\ harvest = HarvestAtBoot(file, MaxPokemon, now)
  /\ lockFile = FALSE
  /\ ServerAtBoot

NextWired ==
  \/ start
  \/ autoResume
  \/ tick
  \/ \E l \in LoopIds :
       \/ startLoop(l)
       \/ wake(l)
       \/ select(l)
       \/ afterPacing(l)
       \/ launch(l)
       \/ saveLoad(l)
       \/ saveOpen(l)
       \/ saveWritePart(l)
       \/ saveWrite(l)
       \/ saveThrows(l)
       \/ \E o \in UpstreamCalls :
            \/ handleBlocked(l, o)
            \/ handleFailure(l, o)
            \/ handleSuccess(l, o)

SpecWired == InitWired /\ [][NextWired]_vars

\* C25: with fetchTrendsData as the capability, the step that handles a fetch
\* the source answered with an HTML page or a rate-limit (429) error pauses the
\* scheduler and adds one to blockedCount
C25_WiredBlockPauses ==
  [][(nHandled' = nHandled + 1 /\ lastHandled'.shape \in {"html", "rateLimit"})
       => (isPaused' /\ stats'.blockedCount = stats.blockedCount + 1)]_vars

(***************************************************************************)
(* SpecHarvest: one harvest of an installation without a data file, the    *)
(* scheduler not started                                                   *)
(***************************************************************************)
InitHarvest ==
  /\ now = NowInit
  /\ isRunning = FALSE
  /\ isPaused = FALSE
  /\ stats = InitStats
  /\ file = <<>>
  /\ loops = [l \in LoopIds |-> NoLoop]
  /\ limiter = InitLimiter
  /\ resumeTimers = <<>>
  /\ cmdsLeft = 0
  /\ nDispatch = 0
  /\ lastDispatch = NoDispatch
  /\ nHandled = 0
  /\ lastHandled = NoHandled
  /\ sel = [called |-> FALSE]
  /\ ticks = 0
  /\ lastCmd = NoCmd
  /\ harvest = HarvestAtBoot(file, MaxHarvestPokemon, now)
  /\ lockFile = FALSE
  /\ ServerAtBoot

NextHarvest ==
  \/ \E tp \in TargetPokemonChoices, tc \in TargetCountryChoices :
       startBackgroundHarvest(tp, tc)
  \/ harvestList
  \/ \E fb \in BOOLEAN : fetchReturns(fb)
  \/ fetchExhausted
  \/ harvestSave
  \/ harvestFinish

SpecHarvest == InitHarvest /\ [][NextHarvest]_vars

\* the pairs this harvest has processed (fetchAndSave has returned for them)
\* whose entry in currentData is not the entry the data file holds
Unsaved ==
  {k \in {harvest.toFetch[i] : i \in 1..harvest.progress.current} :
     harvest.currentData.entries[k] # loadExistingData(file, now).entries[k]}

\* C27: during a harvest at most 20 processed pairs have their entry in memory
\* only
C27_AtMostTwentyUnsaved ==
  harvest.isHarvesting => Cardinality(Unsaved) <= SaveEvery

(***************************************************************************)
(* SpecShared: the scheduler, started at boot, and the harvest service of  *)
(* the same process on the same data file; the harvest's list is the       *)
(* scheduler's item universe, every fetch of the scheduler succeeds and    *)
(* the clock advances once, past the startup delay.  The file may be the   *)
(* one an earlier process left behind when it died inside writeFile.       *)
(* The process runs in the directory where process.cwd()/data (server.js   *)
(* line 102) and the harvest's ../data (HarvestService.js line 22) are one *)
(* directory, so that both services name the same pokemon_trends.json.     *)
(***************************************************************************)
TruncatedFile == SubSeq(stringify(MixedDoc), 1, 3)

InitShared ==
  /\ now = NowInit
  /\ isRunning = FALSE
  /\ isPaused = FALSE
  /\ stats = InitStats
  /\ file \in InitFiles \cup {TruncatedFile}
  /\ loops = [l \in LoopIds |-> NoLoop]
  /\ limiter = InitLimiter
  /\ resumeTimers = <<>>
  /\ cmdsLeft = 1
  /\ nDispatch = 0
  /\ lastDispatch = NoDispatch
  /\ nHandled = 0
  /\ lastHandled = NoHandled
  /\ sel = [called |-> FALSE]
  /\ ticks = MaxTicks - 1
  /\ lastCmd = NoCmd
  /\ harvest = HarvestAtBoot(file, MaxPokemon, now)
  /\ lockFile = FALSE
  /\ ServerAtBoot

NextShared ==
  \/ start
  \/ tick
  \/ \E l \in LoopIds :
       \/ startLoop(l)
       \/ select(l)
       \/ launch(l)
       \/ handleSuccess(l, "json")
       \/ saveLoad(l)
       \/ saveOpen(l)
       \/ saveWritePart(l)
       \/ saveWrite(l)
  \/ \E tp \in TargetPokemonChoices, tc \in TargetCountryChoices :
       startBackgroundHarvest(tp, tc)
  \/ harvestList
  \/ \E fb \in BOOLEAN : fetchReturns(fb)
  \/ fetchExhausted
  \/ harvestSave
  \/ harvestFinish

SpecShared == InitShared /\ [][NextShared]_vars

\* C22: a load of a data file that is absent or that JSON.parse rejects gives
\* the empty dataset and the loader's caller goes on as from a fresh start:
\* the scheduler selects the first pair of its universe (progress 0), the
\* harvest holds no entry and takes every targeted pair as stale
C22_LoadNeverRaises ==
  [][/\ \A l \in LoopIds :
          (loops[l].pc = "select" /\ loops'[l].pc # "select" /\ ~Parseable(file))
            => (/\ stats'.cycleProgress = 0
                /\ loops'[l].pc \in {"gate", "pacing"}
                /\ loops'[l].pair = 1)
     /\ (harvest.pc = "idle" /\ harvest'.pc = "list" /\ ~Parseable(file))
          => \A k \in HarvestKeys : ~harvest'.currentData.entries[k].present
     /\ (harvest.pc = "list" /\ harvest'.pc # "list"
           /\ \A k \in HarvestKeys : ~harvest.currentData.entries[k].present)
          => Len(harvest'.toFetch) =
               (IF harvest.targetPokemon = Null THEN harvest.n ELSE 1)
                 * (IF harvest.targetCountries = Null THEN NumCountries ELSE 1)]_vars

\* witness of C22: the data file is the truncated one; the scheduler has
\* selected the first pair, which the truncated text holds as fresh, and the
\* harvest, started on that file, holds the empty dataset and fetches every
\* pair of its list
C22_Witness ==
  /\ file = TruncatedFile
  /\ ~Parseable(file)
  /\ \E l \in LoopIds : loops[l].pc \in {"gate", "pacing"} /\ loops[l].pair = 1
  /\ stats.cycleProgress = 0
  /\ harvest.pc = "fetch"
  /\ harvest.item = 1
  /\ Len(harvest.toFetch) = NumPairs
  /\ \A k \in HarvestKeys : ~harvest.currentData.entries[k].present

\* C23: once the scheduler has saved the entry of a Success, the data file
\* holds an entry for that pair fetched at that time or later, whatever the
\* harvest service saves (except in the middle of the scheduler's own writes)
C23_SchedulerEntrySurvives ==
  (lastHandled.class = "success" /\ ~Writing)
    => /\ Stored.entries[lastHandled.pair].present
       /\ Stored.entries[lastHandled.pair].lastFetched >= lastHandled.t

\* C24: every entry of the data file, of the harvest's currentData and of a
\* document the scheduler is about to write has a lastFetched
C24_EntriesCarryLastFetched ==
  /\ \A k \in HarvestKeys :
       /\ loadExistingData(file, now).entries[k].present
            => loadExistingData(file, now).entries[k].lastFetched # NoStamp
       /\ harvest.currentData.entries[k].present
            => harvest.currentData.entries[k].lastFetched # NoStamp
  /\ \A l \in LoopIds : \A k \in PairIds :
       (loops[l].pc \in {"saveOpen", "saveWrite"} /\ loops[l].doc.entries[k].present)
         => loops[l].doc.entries[k].lastFetched # NoStamp

\* witness of C24: the data file holds the entry of the scheduler's latest
\* Success, a fallback entry of exhausted retries and a fallback entry the
\* harvest's client returned
C24_Witness ==
  /\ Parseable(file)
  /\ lastHandled.class = "success"
  /\ Stored.entries[lastHandled.pair].present
  /\ Stored.entries[lastHandled.pair].lastFetched = lastHandled.t
  /\ \E k \in PairIds : Stored.entries[k].present /\ Stored.entries[k].kind = "error"
  /\ \E k \in PairIds : /\ Stored.entries[k].present
                        /\ Stored.entries[k].kind = "real"
                        /\ Stored.entries[k].fallback

(***************************************************************************)
(* SpecStale: getStaleEntries applied to every document over SelEntries    *)
(* and entries without lastFetched, for every choice of the targets, after *)
(* zero to MaxTicks days                                                   *)
(***************************************************************************)
StaleEntries == SelEntries \cup {MkEntry(NoStamp, FALSE, "real")}

InitStale ==
  /\ now = NowInit
  /\ isRunning = FALSE
  /\ isPaused = FALSE
  /\ stats = InitStats
  /\ \E e \in [PairIds -> StaleEntries] :
       file = stringify([entries |-> e, lastUpdate |-> NowInit - DayMs,
                         topicIds |-> FALSE])
  /\ loops = [l \in LoopIds |-> NoLoop]
  /\ limiter = [stopped |-> FALSE]
  /\ resumeTimers = <<>>
  /\ cmdsLeft = 0
  /\ nDispatch = 0
  /\ lastDispatch = NoDispatch
  /\ nHandled = 0
  /\ lastHandled = NoHandled
  /\ sel = [called |-> FALSE]
  /\ ticks = 0
  /\ lastCmd = NoCmd
  /\ harvest = HarvestAtBoot(file, MaxPokemon, now)
  /\ lockFile = FALSE
  /\ ServerAtBoot

NextStale ==
  \/ SelectorDay
  \/ \E tp \in TargetPokemonChoices, tc \in TargetCountryChoices :
       startBackgroundHarvest(tp, tc)
  \/ harvestList

SpecStale == InitStale /\ [][NextStale]_vars

PokemonCount == 1025
CountryCount == 6
TotalEntries == PokemonCount * CountryCount
\* const requestsPerHour = 60 / (25 / 60): one request every 25 seconds
EtaIntervalSeconds == 25
RequestsPerHour == (60 * 60) \div EtaIntervalSeconds

\* calculateETA: null when not running or at progress 0; hoursRemaining and
\* daysRemaining are Math.round of remaining / requestsPerHour and of that
\* quotient / 24, with remaining = totalEntries * (1 - cycleProgress / 100)
calculateETA(running, progress) ==
  IF ~running \/ progress = 0 THEN Null
  ELSE [hoursRemaining |-> Round(TotalEntries * (100 - progress), 100 * RequestsPerHour),
        daysRemaining |-> Round(TotalEntries * (100 - progress),
                                100 * RequestsPerHour * 24)]

\* getStatus(): what the status endpoint answers in the current state
getStatus ==
  [isRunning |-> isRunning, isPaused |-> isPaused, stats |-> stats,
   estimatedCompletion |-> calculateETA(isRunning, stats.cycleProgress)]

\* C31: the hours getStatus reports are the remaining pairs, totalEntries *
\* (1 - cycleProgress / 100), divided by the throughput the limiter's minTime
\* allows, 3,600,000 / minTime requests an hour (rounded as the code rounds)
C31_EtaFollowsConfiguredInterval ==
  getStatus.estimatedCompletion # Null
    => getStatus.estimatedCompletion.hoursRemaining
         = Round(TotalEntries * (100 - stats.cycleProgress) * (MinTime \div 1000),
                 100 * 60 * 60)

(***************************************************************************)
(* getFallbackScore (server.js lines 539-546, HarvestService.js lines      *)
(* 294-297); a name is the sequence of its UTF-16 code units               *)
(***************************************************************************)
\* the code units names are made of: "-", "A", "a", "i", "z"
CodeUnits == {45, 65, 97, 105, 122}
Names == UNION {[1..n -> CodeUnits] : n \in 0..MaxNameLen}

\* String.prototype.toLowerCase on one code unit
ToLowerCase(c) == IF c \in 65..90 THEN c + 32 ELSE c

\* name.split('').reduce((acc, c) => acc + c.charCodeAt(0), 0)
RECURSIVE SeedOf(_)
SeedOf(name) == IF name = <<>> THEN 0 ELSE Head(name) + SeedOf(Tail(name))

Min(a, b) == IF a <= b THEN a ELSE b

\* server.js: the seed of the lower-cased name; Math.min(60, 30 + (seed % 50))
getFallbackScoreUncapped(name) ==
  30 + (SeedOf([i \in 1..Len(name) |-> ToLowerCase(name[i])]) % 50)

getFallbackScore(name) ==
  Min(60, 30 + (SeedOf([i \in 1..Len(name) |-> ToLowerCase(name[i])]) % 50))

\* HarvestService.getFallbackScore: the seed of the name as given
getFallbackScoreOfHarvest(name) == Min(60, 30 + (SeedOf(name) % 50))

scoreName(name) ==
  /\ scored' = [called |-> TRUE, name |-> name, server |-> getFallbackScore(name),
                harvest |-> getFallbackScoreOfHarvest(name)]
  /\ UNCHANGED <<file, harvest, lockFile, SchedulerVars, dailyStats, trendsCache,
                 topicIdCache, calls, lastStore>>

InitScore ==
  /\ now = NowInit
  /\ isRunning = FALSE
  /\ isPaused = FALSE
  /\ stats = InitStats
  /\ file = <<>>
  /\ loops = [l \in LoopIds |-> NoLoop]
  /\ limiter = [stopped |-> FALSE]
  /\ resumeTimers = <<>>
  /\ cmdsLeft = 0
  /\ nDispatch = 0
  /\ lastDispatch = NoDispatch
  /\ nHandled = 0
  /\ lastHandled = NoHandled
  /\ sel = [called |-> FALSE]
  /\ ticks = 0
  /\ lastCmd = NoCmd
  /\ harvest = HarvestAtBoot(file, MaxPokemon, now)
  /\ lockFile = FALSE
  /\ ServerAtBoot

NextScore == \E name \in Names : scoreName(name)

SpecScore == InitScore /\ [][NextScore]_vars

OtherVars == <<file, harvest, lockFile, isRunning, isPaused, stats, loops, limiter,
               resumeTimers, cmdsLeft, nDispatch, lastDispatch, nHandled, lastHandled,
               sel, lastCmd, scored>>

\* the fallback object of lines 377-396
BudgetFallback ==
  [type |-> "object", error |-> <<"Daily trends budget exceeded">>, fallback |-> TRUE,
   text |-> <<>>]

\* the call has returned `result`; hit tells a cache hit
Returned(call, result, hit) ==
  [pc |-> "returned", key |-> call.key, n |-> call.n, upstream |-> call.upstream,
   result |-> result, hit |-> hit]

\* number of interestOverTime requests fetchInterestWithRetry issues
RECURSIVE AttemptsMade(_, _)
AttemptsMade(as, attempt) ==
  IF TryOnce(as[attempt]).ok \/ attempt = MaxAttempts \/ attempt = Len(as)
    THEN attempt
    ELSE AttemptsMade(as, attempt + 1)

\* lines 266-273: the cache lookup; a valid entry is returned at once
callBegin(c, k) ==
  /\ calls[c].pc \in {"idle", "returned"}
  /\ calls[c].n < MaxCallsPerSlot
  /\ LET cached == trendsCache[k]
         call == [pc |-> "topic", key |-> k, n |-> calls[c].n + 1, upstream |-> 0,
                  topicId |-> FALSE]
     IN calls' = [calls EXCEPT ![c] =
                    IF cached # Null /\ now - cached.timestamp < CACHE_TTL
                      THEN Returned(call, cached.data, TRUE)
                      ELSE call]
  /\ UNCHANGED <<now, ticks, dailyStats, trendsCache, topicIdCache, lastStore, OtherVars>>

\* lines 370-411, run when getTopicId has answered topicId after reqs
\* autoComplete requests: the day's reset, the budget test and, without a
\* topic id, the increment that precedes fetchInterestWithRetry
budgetCheck(c, topicId, reqs) ==
  LET call == [calls[c] EXCEPT !.upstream = @ + reqs, !.topicId = topicId]
      today == DateOf(now)
      used == IF dailyStats.date # today THEN 0 ELSE dailyStats.requestsToday
  IN IF DAILY_BUDGET > 0 /\ used >= DAILY_BUDGET
       THEN /\ dailyStats' = [date |-> today, requestsToday |-> used]
            /\ calls' = [calls EXCEPT ![c] = Returned(call, BudgetFallback, FALSE)]
     ELSE IF topicId
       THEN /\ dailyStats' = [date |-> today, requestsToday |-> used]
            /\ calls' = [calls EXCEPT ![c] = [call EXCEPT !.pc = "pause"]]
     ELSE /\ dailyStats' = [date |-> today, requestsToday |-> used + 1]
          /\ calls' = [calls EXCEPT ![c] = [call EXCEPT !.pc = "interest"]]

\* getTopicId, line 184: the name is in topicIdCache
topicCached(c) ==
  /\ calls[c].pc = "topic"
  /\ topicIdCache[NameOf(calls[c].key)] # "unset"
  /\ budgetCheck(c, topicIdCache[NameOf(calls[c].key)] = "mid", 0)
  /\ UNCHANGED <<now, ticks, trendsCache, topicIdCache, lastStore, OtherVars>>

\* getTopicId, lines 186-256: autoComplete is asked; a is what came of it:
\* a topic found at the first request, a parsed answer without the topic
\* (null is cached), or every request of both queries failing (nothing cached)
TopicAnswers == {"found", "notFound", "failed"}

topicLookup(c, a) ==
  /\ calls[c].pc = "topic"
  /\ topicIdCache[NameOf(calls[c].key)] = "unset"
  /\ topicIdCache' = [topicIdCache EXCEPT ![NameOf(calls[c].key)] =
                        IF a = "found" THEN "mid" ELSE IF a = "notFound" THEN "null" ELSE @]
  /\ budgetCheck(c, a = "found",
                 IF a = "failed" THEN TopicQueries * TopicMaxAttempts ELSE 1)
  /\ UNCHANGED <<now, ticks, trendsCache, lastStore, OtherVars>>

\* lines 403-411: the 200-800 ms pause of a call with a topic id is over;
\* the counter is incremented and fetchInterestWithRetry begins
afterPause(c) ==
  /\ calls[c].pc = "pause"
  /\ dailyStats' = [dailyStats EXCEPT !.requestsToday = @ + 1]
  /\ calls' = [calls EXCEPT ![c].pc = "interest"]
  /\ UNCHANGED <<now, ticks, trendsCache, topicIdCache, lastStore, OtherVars>>

\* lines 411-504 and 506-532: fetchInterestWithRetry has ended as o tells.
\* A timeline is scored, stored in trendsCache and returned; an empty
\* timeline of a topic query leads to the keyword query; otherwise the
\* fallback object is returned
interestReturnsCachesAll(c, o) ==
  /\ calls[c].pc = "interest"
  /\ LET call == [calls[c] EXCEPT !.upstream = @ + AttemptsMade(Attempts(o), 1)]
     IN /\ trendsCache' = [trendsCache EXCEPT ![call.key] =
                             [data |-> fetchTrendsData(o), timestamp |-> now]]
        /\ lastStore' = [lastStore EXCEPT ![call.key] = now]
        /\ calls' = [calls EXCEPT ![c] = Returned(call, fetchTrendsData(o), FALSE)]
  /\ UNCHANGED <<now, ticks, dailyStats, topicIdCache, OtherVars>>

interestReturns(c, o) ==
  /\ calls[c].pc = "interest"
  /\ LET call == [calls[c] EXCEPT !.upstream = @ + AttemptsMade(Attempts(o), 1)]
         r == fetchInterestWithRetry(Attempts(o), 1)
     IN IF ~fetchTrendsData(o).fallback
          THEN /\ trendsCache' = [trendsCache EXCEPT ![call.key] =
                                    [data |-> fetchTrendsData(o), timestamp |-> now]]
               /\ lastStore' = [lastStore EXCEPT ![call.key] = now]
               /\ calls' = [calls EXCEPT ![c] = Returned(call, fetchTrendsData(o), FALSE)]
        ELSE IF r.ok /\ call.topicId
          THEN /\ calls' = [calls EXCEPT ![c] = [call EXCEPT !.pc = "keyword"]]
               /\ UNCHANGED <<trendsCache, lastStore>>
        ELSE /\ calls' = [calls EXCEPT ![c] = Returned(call, fetchTrendsData(o), FALSE)]
             /\ UNCHANGED <<trendsCache, lastStore>>
  /\ UNCHANGED <<now, ticks, dailyStats, topicIdCache, OtherVars>>

\* lines 418-432 and 434-504: the keyword query of a call whose topic query
\* gave an empty timeline has ended as o tells; its error is swallowed and
\* the empty timeline of the topic query stands
keywordReturns(c, o) ==
  /\ calls[c].pc = "keyword"
  /\ LET call == [calls[c] EXCEPT !.upstream = @ + AttemptsMade(Attempts(o), 1)]
     IN IF ~fetchTrendsData(o).fallback
          THEN /\ trendsCache' = [trendsCache EXCEPT ![call.key] =
                                    [data |-> fetchTrendsData(o), timestamp |-> now]]
               /\ lastStore' = [lastStore EXCEPT ![call.key] = now]
               /\ calls' = [calls EXCEPT ![c] = Returned(call, fetchTrendsData(o), FALSE)]
          ELSE /\ calls' = [calls EXCEPT ![c] =
                              Returned(call, fetchTrendsData("upEmptyTimeline"), FALSE)]
               /\ UNCHANGED <<trendsCache, lastStore>>
  /\ UNCHANGED <<now, ticks, dailyStats, topicIdCache, OtherVars>>

\* GET /admin/clear-cache without parameters, lines 588-634
clearCache ==
  /\ trendsCache' = [k \in PairIds |-> Null]
  /\ topicIdCache' = [p \in 1..MaxPokemon |-> "unset"]
  /\ UNCHANGED <<now, ticks, dailyStats, calls, lastStore, OtherVars>>

\* twelve hours pass (twice in SpecServer)
serverTick ==
  /\ ticks < MaxTicks
  /\ ticks' = ticks + 1
  /\ now' = now + HalfDayMs
  /\ UNCHANGED <<dailyStats, trendsCache, topicIdCache, calls, lastStore, OtherVars>>

\* the answers of the source the calls meet
ServerUpstream == {"upTimeline", "upEmptyTimeline", "up429"}

InitServer ==
  /\ now = NowInit
  /\ isRunning = FALSE
  /\ isPaused = FALSE
  /\ stats = InitStats
  /\ file = <<>>
  /\ loops = [l \in LoopIds |-> NoLoop]
  /\ limiter = [stopped |-> FALSE]
  /\ resumeTimers = <<>>
  /\ cmdsLeft = 0
  /\ nDispatch = 0
  /\ lastDispatch = NoDispatch
  /\ nHandled = 0
  /\ lastHandled = NoHandled
  /\ sel = [called |-> FALSE]
  /\ ticks = MaxTicks - 2
  /\ lastCmd = NoCmd
  /\ harvest = HarvestAtBoot(file, MaxPokemon, now)
  /\ lockFile = FALSE
  /\ ServerAtBoot

NextServer ==
  \/ \E c \in CallIds :
       \/ \E k \in ServerKeys : callBegin(c, k)
       \/ topicCached(c)
       \/ \E a \in TopicAnswers : topicLookup(c, a)
       \/ afterPause(c)
       \/ \E o \in ServerUpstream : interestReturns(c, o)
       \/ \E o \in ServerUpstream : keywordReturns(c, o)
  \/ clearCache
  \/ serverTick

SpecServer == InitServer /\ [][NextServer]_vars

\* C33: the day's request counter never exceeds the daily budget
C33_CounterWithinBudget ==
  dailyStats.requestsToday <= DAILY_BUDGET

\* C34: a call that has missed the cache while today's budget is exhausted
\* returns a fallback object at its next step and has issued no upstream
\* request, autoComplete included
C34_ExhaustedBudgetAsksNothing ==
  [][\A c \in CallIds :
       (/\ calls[c].pc = "topic"
        /\ calls'[c] # calls[c]
        /\ dailyStats.date = DateOf(now)
        /\ dailyStats.requestsToday >= DAILY_BUDGET)
         => (/\ calls'[c].pc = "returned"
             /\ calls'[c].result.fallback
             /\ calls'[c].upstream = 0)]_vars

\* a call of fetchTrendsData for key k begins in slot c
Begins(c, k) ==
  /\ calls[c].pc \in {"idle", "returned"}
  /\ calls'[c].pc \in {"topic", "returned"}
  /\ calls'[c].n = calls[c].n + 1
  /\ calls'[c].key = k

ServedFromCache(c) ==
  /\ calls'[c].pc = "returned"
  /\ calls'[c].hit
  /\ ~calls'[c].result.fallback
  /\ calls'[c].upstream = 0

NoFallbackCached ==
  \A k \in PairIds : trendsCache'[k] # Null => ~trendsCache'[k].data.fallback

\* C39 as stated: trendsCache holds no fallback object, and a call that
\* begins less than 24 hours after a store for its key returns the stored
\* result without an upstream request
C39_StoreServesFor24Hours ==
  [][/\ NoFallbackCached
     /\ \A c \in CallIds, k \in PairIds :
          (Begins(c, k) /\ lastStore[k] # NoStamp /\ now - lastStore[k] < CACHE_TTL)
            => ServedFromCache(c)]_vars

\* C39 amended: ... unless the entry has been cleared from the cache since
C39_StoreServesUntilCleared ==
  [][/\ NoFallbackCached
     /\ \A c \in CallIds, k \in PairIds :
          (/\ Begins(c, k)
           /\ trendsCache[k] # Null
           /\ lastStore[k] # NoStamp
           /\ now - lastStore[k] < CACHE_TTL)
            => (ServedFromCache(c) /\ calls'[c].result = trendsCache[k].data)]_vars

\* witness of C39: one call has stored the result of a timeline; the other
\* call, for the same key, began twelve hours later and was answered from
\* the cache with that result, without an upstream request
C39_Witness ==
  \E c, d \in CallIds :
    /\ calls[c].pc = "returned"
    /\ calls[c].hit
    /\ calls[c].upstream = 0
    /\ ~calls[c].result.fallback
    /\ now - lastStore[calls[c].key] = HalfDayMs
    /\ calls[d].pc = "returned"
    /\ calls[d].key = calls[c].key
    /\ ~calls[d].hit
    /\ calls[d].upstream > 0
    /\ calls[d].result = calls[c].result

(***************************************************************************)
(* SpecRuns: the harvest service alone, with every way a call of           *)
(* startBackgroundHarvest and a fetchAndSave can go; the data file is      *)
(* absent or was written by the scheduler (a document without topicIds),   *)
(* the lock file may be left over from a crash.  SpecRunsFair adds that a  *)
(* harvest whose next continuation is ready runs it.                       *)
(***************************************************************************)
InitRuns ==
  /\ now = NowInit
  /\ isRunning = FALSE
  /\ isPaused = FALSE
  /\ stats = InitStats
  /\ file \in InitFiles
  /\ loops = [l \in LoopIds |-> NoLoop]
  /\ limiter = [stopped |-> FALSE]
  /\ resumeTimers = <<>>
  /\ cmdsLeft = 0
  /\ nDispatch = 0
  /\ lastDispatch = NoDispatch
  /\ nHandled = 0
  /\ lastHandled = NoHandled
  /\ sel = [called |-> FALSE]
  /\ ticks = 0
  /\ lastCmd = NoCmd
  /\ harvest = HarvestAtBoot(file, MaxPokemon, now)
  /\ lockFile \in BOOLEAN
  /\ ServerAtBoot

HarvestStep ==
  \/ harvestList
  \/ harvestListFails
  \/ \E as \in [1..MaxRetries -> ClientAnswers] : fetchAndSave(as)
  \/ harvestSave
  \/ harvestFinish

NextRuns ==
  \/ startBackgroundHarvest(Null, Null)
  \/ startLockFails
  \/ startWhileHarvesting
  \/ HarvestStep

SpecRuns == InitRuns /\ [][NextRuns]_vars

SpecRunsFair == SpecRuns /\ WF_vars(HarvestStep)

\* the same harvest when writing the lock file never fails
NextRunsLockWritten ==
  \/ startBackgroundHarvest(Null, Null)
  \/ startWhileHarvesting
  \/ HarvestStep

SpecRunsLockWritten == InitRuns /\ [][NextRunsLockWritten]_vars /\ WF_vars(HarvestStep)

\* C35: whenever isHarvesting is true, it eventually becomes false again with
\* the lock file absent, whichever way the call of startBackgroundHarvest
\* ended (harvest completed, harvest failed, lock file not written).
C35_HarvestingEnds ==
  harvest.isHarvesting ~> (~harvest.isHarvesting /\ ~lockFile)

\* C36: a call of startBackgroundHarvest made while a harvest is in progress
\* answers 'already_running' and changes nothing of the harvest: no second
\* doHarvest is started (the position, the list of pairs, the document and
\* the number of harvests begun are as before), the progress counters and
\* the lock file are unchanged.
C36_SecondStartChangesNothing ==
  [][(harvest.isHarvesting /\ harvest'.starts = harvest.starts + 1)
       => /\ harvest'.status = "already_running"
          /\ harvest' = [harvest EXCEPT !.status = "already_running",
                                        !.starts = harvest.starts + 1]
          /\ harvest'.progress = harvest.progress
          /\ harvest'.runs = harvest.runs
          /\ lockFile' = lockFile
          /\ file' = file]_vars

\* a harvest with one pair processed has been asked to start again
C36_Witness ==
  /\ harvest.status = "already_running"
  /\ harvest.pc = "fetch"
  /\ harvest.progress.current = 1
  /\ harvest.runs = 1
  /\ lockFile

\* C37: between two processed items of a harvest (before a fetchAndSave is
\* called and after the last one has been counted) successCount +
\* fallbackCount = current and current <= total; once every item is
\* processed, and after the harvest has completed, current = total.
C37_ProgressAddsUp ==
  /\ harvest.pc \in {"fetch", "finish"}
       => /\ harvest.progress.successCount + harvest.progress.fallbackCount
               = harvest.progress.current
          /\ harvest.progress.current <= harvest.progress.total
  /\ harvest.pc \in {"finish", "idle"}
       => harvest.progress.current = harvest.progress.total

\* every pair of an empty document has been processed: two results, one
\* fallback result and one pair whose attempts all threw
C37_Witness ==
  /\ harvest.pc = "finish"
  /\ harvest.progress.total = Cardinality(PairIds)
  /\ harvest.progress.current = harvest.progress.total
  /\ harvest.progress.successCount = 2
  /\ harvest.progress.fallbackCount = 2
  /\ harvest.invocations = MaxRetries
  /\ \E k \in PairIds : harvest.currentData.entries[k] = FetchedEntry(TRUE, now)
  /\ \E k \in PairIds : harvest.currentData.entries[k] = ExhaustedEntry(now)

\* C38: a fetchAndSave invokes the trends client at most maxRetries times,
\* touches the entry of its pair only, and leaves there an entry with
\* lastFetched = now: the client's result of the first attempt that did not
\* throw (got at that attempt), or a fallback entry when every attempt threw.
C38_FetchAndSaveKeepsFirstResult ==
  [][(harvest.pc = "fetch" /\ (harvest'.item # harvest.item \/ harvest'.pc = "save"))
       => LET k == harvest.toFetch[harvest.item]
              as == harvest'.answers
              e == harvest'.currentData.entries[k]
              answered == {i \in 1..MaxRetries : as[i] # "throws"}
          IN /\ harvest'.invocations <= MaxRetries
             /\ \A j \in PairIds \ {k} :
                  harvest'.currentData.entries[j] = harvest.currentData.entries[j]
             /\ e.present
             /\ e.lastFetched = now'
             /\ IF answered = {}
                  THEN e.fallback /\ e.kind = "error"
                  ELSE LET first == CHOOSE i \in answered : \A j \in answered : i <= j
                       IN /\ harvest'.invocations = first
                          /\ e = MkEntry(now', as[first] = "fallbackData", "real")]_vars

====
